---------------------------- MODULE Spec2Model ----------------------------
(***************************************************************************)
(* A model of the incremental data synchronisation engine of panda_factor  *)
(* (panda_data_hub / panda_data).                                          *)
(*                                                                         *)
(* Spec       the sync orchestrators of every category (name changes,      *)
(*            dividends, index prices, stock info, adjustment factors)     *)
(*            with their shared progress records, the persisted            *)
(*            checkpoint and the provider calls of the worker pool.        *)
(* SpecStore  the key-based bulk upsert writer over the store collections. *)
(* SpecReader the chunked parallel reads of MarketDataReader.              *)
(* SpecClient the provider sessions the cleaners and services create.      *)
(* SpecRate   the pauses between the provider calls of concurrent runs.    *)
(*                                                                         *)
(* Dates are the YYYYMMDD values the code passes around as strings; string *)
(* comparison of two such values is the comparison of the numbers.         *)
(***************************************************************************)
EXTENDS Integers, Sequences, FiniteSets, TLC

(***************************************************************************)
(* Calendar: datetime.strptime / strftime / timedelta / replace.           *)
(***************************************************************************)

Year(s) == s \div 10000
Month(s) == (s \div 100) % 100
Day(s) == s % 100
MkDate(y, m, d) == y * 10000 + m * 100 + d

IsLeap(y) == (y % 4 = 0) /\ ((y % 100 # 0) \/ (y % 400 = 0))

DaysInMonth(y, m) ==
    IF m = 2 THEN (IF IsLeap(y) THEN 29 ELSE 28)
    ELSE IF m \in {4, 6, 9, 11} THEN 30 ELSE 31

DaysInYear(y) == IF IsLeap(y) THEN 366 ELSE 365

RECURSIVE DaysBeforeYear(_)
DaysBeforeYear(y) ==
    IF y <= 2023 THEN 0 ELSE DaysBeforeYear(y - 1) + DaysInYear(y - 1)

RECURSIVE DaysBeforeMonth(_, _)
DaysBeforeMonth(y, m) ==
    IF m <= 1 THEN 0 ELSE DaysBeforeMonth(y, m - 1) + DaysInMonth(y, m - 1)

\* datetime.strptime(s, "%Y%m%d"), as the day's ordinal (2023-01-01 is 1).
Strptime(s) == DaysBeforeYear(Year(s)) + DaysBeforeMonth(Year(s), Month(s)) + Day(s)

RECURSIVE YearOfOrdinal(_, _)
YearOfOrdinal(o, y) ==
    IF o <= DaysBeforeYear(y) + DaysInYear(y) THEN y ELSE YearOfOrdinal(o, y + 1)

RECURSIVE MonthOfOrdinal(_, _, _)
MonthOfOrdinal(r, y, m) ==
    IF r <= DaysBeforeMonth(y, m) + DaysInMonth(y, m) THEN m
    ELSE MonthOfOrdinal(r, y, m + 1)

\* dt.strftime("%Y%m%d") of the day with ordinal o.
Strftime(o) ==
    LET y == YearOfOrdinal(o, 2023)
        r == o - DaysBeforeYear(y)
        m == MonthOfOrdinal(r, y, 1)
    IN  MkDate(y, m, r - DaysBeforeMonth(y, m))

\* (strptime(s) + timedelta(days=n)).strftime()
AddDays(s, n) == Strftime(Strptime(s) + n)

\* (strptime(a) - strptime(b)).days
DaysBetween(a, b) == Strptime(a) - Strptime(b)

\* dt.replace(day=1)
FirstOfMonth(s) == MkDate(Year(s), Month(s), 1)

\* TSNamechangeCleanService._get_month_end
_get_month_end(date_str) ==
    LET y == Year(date_str)
        m == Month(date_str)
        next_month == IF m = 12 THEN MkDate(y + 1, 1, 1) ELSE MkDate(y, m + 1, 1)
    IN  AddDays(next_month, -1)

\* next_month = strptime(d) + timedelta(days=32); next_month.replace(day=1)
NextMonthStart(d) == FirstOfMonth(AddDays(d, 32))


(***************************************************************************)
(* State.                                                                  *)
(***************************************************************************)
VARIABLES
    now,               \* datetime.now().strftime("%Y%m%d")
    progress,          \* the routes' module-level progress dicts, by category
    active,            \* the category whose entry point the behaviour invokes
    pc,                \* the running task's position
    args,              \* the running invocation's arguments
    loc,               \* the running task's locals
    sync_records,      \* last_sync_date of sync_records{data_type: namechange}; 0: no record
    stock_namechange,  \* the documents of the stock_namechange collection
    db,                \* the documents of the other collections, by collection name
    tasks,             \* the day-tasks of the adjustment-factor batch in the pool;
                       \* SpecOverlap: the background tasks of the routes
    run_log,           \* history of the running invocation (not program state)
    store,             \* SpecStore: the documents of each upserted collection;
                       \* SpecSetup: the collections and indexes of the database
    last_write,        \* SpecStore: the outcome of the last two bulk writes
    reader,            \* SpecReader: one get_market_data call of MarketDataReader
    gateway            \* SpecClient, SpecRate: the provider client and its callers

syncVars == <<now, progress, active, pc, args, loc, sync_records,
              stock_namechange, db, tasks, run_log>>
storeVars == <<store, last_write>>
vars == <<now, progress, active, pc, args, loc, sync_records,
          stock_namechange, db, tasks, run_log, store, last_write, reader, gateway>>

\* None
None == 0

Cats == {"namechange", "dividend", "index_market", "stock_info", "adj_factor"}

(***************************************************************************)
(* The progress record.                                                    *)
(***************************************************************************)

\* current_progress / dividend_progress as the modules define them: of the
\* keys, the model keeps progress_percent, status and error_message.
IdleProgress == [progress_percent |-> 0, status |-> "idle", error_message |-> ""]

\* progress_callback: for key, value in progress_info.items(): current_progress[key] = value
\* (dict.update in the dividend route): only the keys given are overwritten.
MergeProgress(cur, info) ==
    [k \in DOMAIN cur \cup DOMAIN info |-> IF k \in DOMAIN info THEN info[k] ELSE cur[k]]

\* The reset every entry point does before it adds the background task.
ResetProgress(cur) ==
    MergeProgress(cur, [progress_percent |-> 0, status |-> "running", error_message |-> ""])

\* run_with_error_handling / run_task: except Exception -> status error with a message.
ErrorProgress(cur, msg) ==
    MergeProgress(cur, [status |-> "error", error_message |-> msg])

\* A poll that turns every running record into completed, whatever its percentage.
PollProgressNoThreshold(cur) ==
    IF cur.status = "running"
    THEN [k \in DOMAIN cur |-> IF k = "status" THEN "completed" ELSE cur[k]]
    ELSE cur

\* get_progress: a poll turns a running record at 100% into completed.
PollProgress(cur) ==
    IF cur.progress_percent >= 100 /\ cur.status = "running"
    THEN MergeProgress(cur, [status |-> "completed"])
    ELSE cur

Emit(c, info) == progress' = [progress EXCEPT ![c] = MergeProgress(@, info)]


(***************************************************************************)
(* The provider (Tushare) as the name-change service sees it.              *)
(***************************************************************************)

\* pro.query('stock_basic', ...): the known symbols.
StockList == <<"A", "B">>

\* The provider's name-change rows.
NamechangeRows ==
    { [ts_code |-> "A", name |-> "n1", start_date |-> 20230110,
       end_date |-> 20230419, ann_date |-> 20230110],
      [ts_code |-> "A", name |-> "n2", start_date |-> 20230420,
       end_date |-> None, ann_date |-> 20230420],
      [ts_code |-> "B", name |-> "n1", start_date |-> 20230316,
       end_date |-> 20230601, ann_date |-> 20230316],
      [ts_code |-> "B", name |-> "n0", start_date |-> 20230316,
       end_date |-> None, ann_date |-> 20230105],
      [ts_code |-> "B", name |-> "n1b", start_date |-> 20230316,
       end_date |-> 20230601, ann_date |-> 20230317] }

\* pro.query('namechange', start_date=a, end_date=b)
QueryNamechange(a, b) == {r \in NamechangeRows : a <= r.ann_date /\ r.ann_date <= b}

\* pro.namechange(ts_code=s)
NamechangeOf(s) == {r \in NamechangeRows : r.ts_code = s}

\* sort_values(by='end_date', ascending=True): a missing end_date sorts last.
EndDateKey(r) == IF r.end_date = None THEN 99999999 ELSE r.end_date

\* The rows of a frame that share (ts_code, start_date) with r.
SameKeyRows(rows, r) ==
    {q \in rows : q.ts_code = r.ts_code /\ q.start_date = r.start_date}

\* A de-duplication that keeps the row with the latest end_date of each key.
DropDuplicatesKeepLatest(rows) ==
    { CHOOSE k \in SameKeyRows(rows, r) :
          \A q \in SameKeyRows(rows, r) : EndDateKey(k) >= EndDateKey(q) : r \in rows }

\* .sort_values(by='end_date').drop_duplicates(['ts_code', 'start_date'], keep='first'):
\* of the rows of one key the first in end_date order stays.  Among rows of
\* equal end_date the sort decides from the order of the input; the frame
\* here is a set, and the row that stays is a fixed one of them.
DropDuplicates(rows) ==
    { CHOOSE k \in SameKeyRows(rows, r) :
          \A q \in SameKeyRows(rows, r) : EndDateKey(k) <= EndDateKey(q) : r \in rows }

RECURSIVE SortByEndDate(_)
SortByEndDate(rows) ==
    IF rows = {} THEN <<>>
    ELSE LET first == CHOOSE r \in rows : \A q \in rows : EndDateKey(r) <= EndDateKey(q)
         IN  <<first>> \o SortByEndDate(rows \ {first})

\* doc = {'symbol': row['symbol'], 'name': ..., 'start_date': ..., ...}
\* (ts_code renamed to symbol; updated_at is not modelled)
NamechangeDoc(row) ==
    [symbol |-> row.ts_code, name |-> row.name, start_date |-> row.start_date,
     end_date |-> row.end_date, ann_date |-> row.ann_date]

\* An existence check whose filter also names updated_at, the time of the
\* run: no document of an earlier run matches it.
FindExistingWithTimestamp(coll, doc) == FALSE

\* collection.find_one({'symbol': ..., 'name': ..., 'ann_date': ...})
FindExisting(coll, doc) ==
    \E d \in coll : d.symbol = doc.symbol /\ d.name = doc.name /\ d.ann_date = doc.ann_date

\* collection.count_documents({'symbol': ts_code})
CountDocuments(coll, symbol) == Cardinality({d \in coll : d.symbol = symbol})

(***************************************************************************)
(* Inputs of the entry points.                                             *)
(***************************************************************************)
StartDates == {None, 20230101, 20230301}
EndDates == {None, 20230131, 20230331}
ClockDays == {20230410, 20230520}

NoLoc ==
    [start_date |-> None, end_date |-> None, current_start |-> None,
     all_data |-> {}, data |-> <<>>, i |-> 0, batch_data |-> {}, docs |-> {}]

NoArgs == [start_date |-> None, end_date |-> None, force_update |-> FALSE]
\* The pagination record of a run before its first sub-query.
NoQuery == [rows |-> <<>>, total |-> 0, requested |-> <<>>, appended |-> <<>>, ended |-> ""]

\* What the history keeps of one invocation: the checkpoint and the status
\* it started from, its mode and the end of its window, the documents it
\* inserted, whether a store or provider call raised in it (fault), whether
\* the store or the provider was out of reach for the run as a whole
\* (unavailable), how far it came, the sub-windows whose query returned and
\* whether the query of a sub-window raised; of a full-mode run the symbols
\* the provider was asked for (asked), those skipped as already stored
\* (skipped), those without a stored record when their turn came (absent),
\* and whether every known symbol had a stored record at the start; of a
\* dividend run the last sub-query's pagination (last_query: the rows of
\* interest, how many records the provider holds, the offsets requested, the
\* pages appended to dfs, how the loop ended), whether a page
\* fetch raised, whether a pagination reached its last page with every page
\* full (ceiling), whether the write raised and the records of the bulk write;
\* of a name-change run the collection as it was at the start (coll0) and,
\* when the run before it was an incremental one that ended completed
\* without a fault, the sub-windows of that run (prev_windows); of a dividend
\* sweep and of an index-price history run the window asked for (windows);
\* of an index-price history run the index_market collection as it was at
\* the start (index_market0) and the indices whose fetch returned (asked);
\* of a dividend sweep the days the provider was queried for, in order
\* (queried).
NewRunLog ==
    [ckpt0 |-> sync_records, status0 |-> progress[active].status, full |-> FALSE,
     end_date |-> None, inserted |-> 0, fault |-> FALSE, unavailable |-> FALSE,
     fetched |-> FALSE, saved |-> FALSE, ckpt_written |-> FALSE,
     windows |-> <<>>, window_failed |-> FALSE,
     asked |-> {}, skipped |-> {}, absent |-> {},
     covered0 |-> \A k \in 1..Len(StockList) :
                     CountDocuments(stock_namechange, StockList[k]) > 0,
     last_query |-> NoQuery, page_raised |-> FALSE, ceiling |-> FALSE,
     write_failed |-> FALSE, written |-> <<>>,
     coll0 |-> stock_namechange,
     index_market0 |-> db["index_market"],
     queried |-> <<>>,
     prev_windows |-> IF /\ active = "namechange"
                         /\ pc = "done"
                         /\ ~run_log.full
                         /\ ~run_log.fault
                         /\ progress["namechange"].status = "completed"
                      THEN run_log.windows ELSE <<>>]

\* No background task is running: the runs of the model do not overlap.
Idle == pc \in {"idle", "done"}

\* The entry point of category c may be invoked.  The categories share no
\* state (each route module has its own progress record, each cleaner its own
\* collection), so a behaviour follows the invocations of one category,
\* whichever it is.
CanInvoke(c) == Idle /\ active = c

\* The background task returns: its arguments and locals are gone.
Return ==
    /\ pc' = "done"
    /\ args' = NoArgs
    /\ loc' = NoLoc


(***************************************************************************)
(* Name changes: routes/data_clean/namechange_data_clean.py and            *)
(* services/ts_namechange_clean_service.py.                                *)
(***************************************************************************)

\* What no step of a running name-change task changes.  (The arguments and
\* the locals live until the task returns.)
ncFrame == <<now, active, db, tasks, store, last_write, reader, gateway>>

\* upsert_namechange_data: reset the progress record, add the background task.
NC_Invoke(start_date, end_date, force_update) ==
    /\ CanInvoke("namechange")
    /\ progress' = [progress EXCEPT !["namechange"] = ResetProgress(@)]
    /\ pc' = "nc_begin"
    /\ args' = [start_date |-> start_date, end_date |-> end_date,
                force_update |-> force_update]
    /\ loc' = NoLoc
    /\ run_log' = [NewRunLog EXCEPT !.full = force_update]
    /\ UNCHANGED <<now, active, sync_records, stock_namechange, db, tasks,
                   store, last_write, reader, gateway>>

\* An exception leaves sync_namechange_data: run_with_error_handling reports it.
NC_Raise(msg) ==
    /\ progress' = [progress EXCEPT !["namechange"] = ErrorProgress(@, msg)]
    /\ Return

\* sync_namechange_data, lines 43-49
NC_Begin ==
    /\ pc = "nc_begin"
    /\ Emit("namechange", [progress_percent |-> 0])
    /\ pc' = "nc_pro_api"
    /\ UNCHANGED <<loc, sync_records, stock_namechange, run_log>>
    /\ UNCHANGED <<args, ncFrame>>

\* lines 51-68: self.pro = ts.pro_api()
NC_ProApi ==
    /\ pc = "nc_pro_api"
    /\ \/ /\ pc' = "nc_p10"
          /\ UNCHANGED <<progress, run_log, args, loc>>
       \/ /\ NC_Raise("Failed to initialize tushare")
          /\ run_log' = [run_log EXCEPT !.fault = TRUE, !.unavailable = TRUE]
    /\ UNCHANGED <<sync_records, stock_namechange>>
    /\ UNCHANGED ncFrame

\* lines 71-74
NC_Progress10 ==
    /\ pc = "nc_p10"
    /\ Emit("namechange", [progress_percent |-> 10])
    /\ pc' = "nc_validate"
    /\ UNCHANGED <<loc, sync_records, stock_namechange, run_log>>
    /\ UNCHANGED <<args, ncFrame>>

\* lines 76-84: validate_tushare_token(self.pro)
NC_ValidateToken ==
    /\ pc = "nc_validate"
    /\ \/ /\ pc' = "nc_p15"
          /\ UNCHANGED <<progress, run_log, args, loc>>
       \/ /\ NC_Raise("token invalid")
          /\ run_log' = [run_log EXCEPT !.fault = TRUE]
    /\ UNCHANGED <<sync_records, stock_namechange>>
    /\ UNCHANGED ncFrame

\* lines 87-90
NC_Progress15 ==
    /\ pc = "nc_p15"
    /\ Emit("namechange", [progress_percent |-> 15])
    /\ pc' = "nc_dates"
    /\ UNCHANGED <<loc, sync_records, stock_namechange, run_log>>
    /\ UNCHANGED <<args, ncFrame>>

\* A start of the window at the checkpoint date itself.
GetLastSyncDateAtCheckpoint(readable) ==
    IF readable /\ sync_records # None
    THEN sync_records
    ELSE AddDays(now, -90)

\* _get_last_sync_date: the day before the checkpoint; 90 days before now when
\* there is no record or the read raises (readable says which).
_get_last_sync_date(readable) ==
    IF readable /\ sync_records # None
    THEN AddDays(sync_records, -1)
    ELSE AddDays(now, -90)

\* lines 92-101: the effective window
NC_ResolveDates ==
    /\ pc = "nc_dates"
    /\ \E readable \in BOOLEAN :
         loc' = [loc EXCEPT
                    !.end_date = IF args.end_date = None THEN now ELSE args.end_date,
                    !.start_date =
                        IF args.start_date # None THEN args.start_date
                        ELSE IF args.force_update THEN 19900101
                        ELSE _get_last_sync_date(readable)]
    /\ run_log' = [run_log EXCEPT
                      !.end_date = IF args.end_date = None THEN now ELSE args.end_date]
    /\ pc' = "nc_p20"
    /\ UNCHANGED <<progress, sync_records, stock_namechange>>
    /\ UNCHANGED <<args, ncFrame>>

\* lines 106-109, and the branch of _fetch_namechange_data on force_update
NC_Progress20 ==
    /\ pc = "nc_p20"
    /\ Emit("namechange", [progress_percent |-> 20])
    /\ pc' = IF args.force_update THEN "nc_stock_list" ELSE "nc_month"
    /\ loc' = [loc EXCEPT !.current_start = loc.start_date]
    /\ UNCHANGED <<sync_records, stock_namechange, run_log>>
    /\ UNCHANGED <<args, ncFrame>>


\* progress = 20 + (days_processed / total_days) * 50, lines 295-297.  The
\* code's value is a float; the model keeps its integer part, which orders
\* the same way against the integer percentages written elsewhere.
FetchProgress(start_date, current_end, end_date) ==
    LET days_processed == DaysBetween(current_end, start_date) + 1
        total_days == DaysBetween(end_date, start_date) + 1
    IN  20 + (days_processed * 50) \div total_days

\* current_end = self._get_month_end(current_start), cut to end_date
CurrentEnd(current_start, end_date) ==
    IF _get_month_end(current_start) > end_date THEN end_date
    ELSE _get_month_end(current_start)

\* lines 276-310: one sub-window whose query returns
NC_FetchMonth ==
    /\ pc = "nc_month"
    /\ loc.current_start <= loc.end_date
    /\ LET current_end == CurrentEnd(loc.current_start, loc.end_date)
           monthly_data == QueryNamechange(loc.current_start, current_end)
       IN  /\ Emit("namechange",
                   [progress_percent |->
                        FetchProgress(loc.start_date, current_end, loc.end_date)])
           /\ loc' = [loc EXCEPT
                        !.all_data = @ \cup DropDuplicates(monthly_data),
                        !.current_start =
                            IF current_end = loc.end_date THEN @
                            ELSE NextMonthStart(current_end)]
           /\ pc' = IF current_end = loc.end_date THEN "nc_concat" ELSE "nc_month"
           /\ run_log' = [run_log EXCEPT
                             !.windows = Append(@, <<loc.current_start, current_end>>)]
    /\ UNCHANGED <<sync_records, stock_namechange>>
    /\ UNCHANGED <<args, ncFrame>>

\* lines 312-318: the query of the sub-window raises; the sweep moves on
NC_FetchMonthFails ==
    /\ pc = "nc_month"
    /\ loc.current_start <= loc.end_date
    /\ loc' = [loc EXCEPT !.current_start = NextMonthStart(loc.current_start)]
    /\ run_log' = [run_log EXCEPT !.fault = TRUE, !.window_failed = TRUE]
    /\ UNCHANGED <<progress, pc, sync_records, stock_namechange>>
    /\ UNCHANGED <<args, ncFrame>>

\* line 276: the while condition fails
NC_FetchLoopEnd ==
    /\ pc = "nc_month"
    /\ loc.current_start > loc.end_date
    /\ pc' = "nc_concat"
    /\ UNCHANGED <<progress, loc, sync_records, stock_namechange, run_log>>
    /\ UNCHANGED <<args, ncFrame>>

\* lines 320-329: concat, the final de-duplication, the rename
NC_Concat ==
    /\ pc = "nc_concat"
    /\ loc' = [loc EXCEPT !.data = SortByEndDate(DropDuplicates(loc.all_data))]
    /\ run_log' = [run_log EXCEPT !.fetched = TRUE]
    /\ pc' = "nc_fetched"
    /\ UNCHANGED <<progress, sync_records, stock_namechange>>
    /\ UNCHANGED <<args, ncFrame>>

(***************************************************************************)
(* Full mode, lines 177-269.  The symbols are handled in batches of        *)
(* batch_size; each batch is inserted as soon as it is fetched.            *)
(***************************************************************************)
batch_size == 10

\* lines 182-194: the stock list, then ensure_collection_and_indexes_namechange
NC_StockList ==
    /\ pc = "nc_stock_list"
    /\ \/ /\ pc' = "nc_stock"
          /\ loc' = [loc EXCEPT !.i = 1, !.batch_data = {}]
          /\ UNCHANGED <<progress, run_log, args>>
       \/ /\ NC_Raise("stock_basic or index setup failed")
          /\ run_log' = [run_log EXCEPT !.fault = TRUE]
    /\ UNCHANGED <<sync_records, stock_namechange>>
    /\ UNCHANGED ncFrame

\* The end of the batch that holds the i-th symbol: min(i + batch_size, len).
BatchEnd(i) ==
    LET first == ((i - 1) \div batch_size) * batch_size
    IN  IF first + batch_size < Len(StockList) THEN first + batch_size
        ELSE Len(StockList)

\* lines 204-225: one symbol of the batch
NC_Stock ==
    /\ pc = "nc_stock"
    /\ loc.i <= Len(StockList)
    /\ LET ts_code == StockList[loc.i]
           existing_count == CountDocuments(stock_namechange, ts_code)
           next == IF loc.i = BatchEnd(loc.i) THEN "nc_batch_save" ELSE "nc_stock"
       IN  /\ pc' = next
           /\ \/ \* already stored: skipped
                 /\ existing_count > 0
                 /\ loc' = [loc EXCEPT !.i = @ + 1]
                 /\ run_log' = [run_log EXCEPT !.skipped = @ \cup {ts_code}]
              \/ \* fetched
                 /\ existing_count = 0
                 /\ loc' = [loc EXCEPT
                              !.i = @ + 1,
                              !.batch_data = @ \cup DropDuplicates(NamechangeOf(ts_code))]
                 /\ run_log' = [run_log EXCEPT
                                   !.asked = @ \cup {ts_code},
                                   !.absent = @ \cup {ts_code}]
              \/ \* pro.namechange raises: logged, next symbol
                 /\ existing_count = 0
                 /\ loc' = [loc EXCEPT !.i = @ + 1]
                 /\ run_log' = [run_log EXCEPT
                                   !.fault = TRUE,
                                   !.asked = @ \cup {ts_code},
                                   !.absent = @ \cup {ts_code}]
              \/ \* count_documents raises: logged, next symbol
                 /\ loc' = [loc EXCEPT !.i = @ + 1]
                 /\ run_log' = [run_log EXCEPT
                                   !.fault = TRUE,
                                   !.absent = IF existing_count = 0
                                              THEN @ \cup {ts_code} ELSE @]
    /\ UNCHANGED <<progress, sync_records, stock_namechange>>
    /\ UNCHANGED <<args, ncFrame>>

\* batch_combined = pd.concat(batch_data): the rows of the batch symbol by
\* symbol, each symbol's in end_date order
RECURSIVE BatchOrder(_, _)
BatchOrder(rows, k) ==
    IF k > Len(StockList) THEN <<>>
    ELSE SortByEndDate({r \in rows : r.ts_code = StockList[k]}) \o BatchOrder(rows, k + 1)

\* lines 228-255: insert_many of the batch (ordered: the documents before
\* the one that fails stay inserted); a failure is logged only
NC_BatchSave ==
    /\ pc = "nc_batch_save"
    /\ LET batch_combined == BatchOrder(loc.batch_data, 1)
           docs_to_insert == {NamechangeDoc(r) : r \in loc.batch_data}
       IN  \/ /\ stock_namechange' = stock_namechange \cup docs_to_insert
              /\ run_log' = [run_log EXCEPT
                                !.inserted = @ + Cardinality(docs_to_insert)]
           \/ /\ docs_to_insert # {}
              /\ \E n \in 0..(Len(batch_combined) - 1) :
                    /\ stock_namechange' = stock_namechange \cup
                           {NamechangeDoc(batch_combined[k]) : k \in 1..n}
                    /\ run_log' = [run_log EXCEPT !.fault = TRUE,
                                                  !.write_failed = TRUE,
                                                  !.inserted = @ + n]
    /\ loc' = [loc EXCEPT !.batch_data = {}]
    /\ pc' = "nc_batch_progress"
    /\ UNCHANGED <<progress, sync_records>>
    /\ UNCHANGED <<args, ncFrame>>

\* lines 258-265 (the integer part of 20 + processed / len * 70), then the
\* next batch or, line 269, return pd.DataFrame()
NC_BatchProgress ==
    /\ pc = "nc_batch_progress"
    /\ LET processed == loc.i - 1
       IN  Emit("namechange",
                [progress_percent |-> 20 + (processed * 70) \div Len(StockList)])
    /\ IF loc.i <= Len(StockList)
       THEN /\ pc' = "nc_stock"
            /\ UNCHANGED <<loc, run_log>>
       ELSE /\ pc' = "nc_fetched"
            /\ loc' = [loc EXCEPT !.data = <<>>]
            /\ run_log' = [run_log EXCEPT !.fetched = TRUE]
    /\ UNCHANGED <<sync_records, stock_namechange>>
    /\ UNCHANGED <<args, ncFrame>>


\* An empty fetch that moves the checkpoint to the end of the window.
NC_FetchedAdvancesCheckpoint ==
    /\ pc = "nc_fetched"
    /\ IF loc.data = <<>>
       THEN /\ Emit("namechange", [progress_percent |-> 100, status |-> "completed"])
            /\ sync_records' = loc.end_date
            /\ Return
       ELSE /\ Emit("namechange", [progress_percent |-> 60])
            /\ pc' = "nc_save_setup"
            /\ UNCHANGED <<args, loc, sync_records>>
    /\ UNCHANGED <<stock_namechange, run_log>>
    /\ UNCHANGED ncFrame

\* lines 112-126: nothing fetched (always so in full mode, whose fetch
\* returns an empty frame) ends the run as completed; else the save begins
NC_Fetched ==
    /\ pc = "nc_fetched"
    /\ IF loc.data = <<>>
       THEN /\ Emit("namechange", [progress_percent |-> 100, status |-> "completed"])
            /\ Return
       ELSE /\ Emit("namechange", [progress_percent |-> 60])
            /\ pc' = "nc_save_setup"
            /\ UNCHANGED <<args, loc>>
    /\ UNCHANGED <<sync_records, stock_namechange, run_log>>
    /\ UNCHANGED ncFrame

\* A save that logs its exception and returns to the caller as if it had succeeded.
NC_SaveRaiseSwallowed ==
    /\ pc' = "nc_p90"
    /\ run_log' = [run_log EXCEPT !.fault = TRUE]
    /\ UNCHANGED <<progress, args, loc>>

\* _save_namechange_data raises: lines 473-480 report the error and re-raise
NC_SaveRaise ==
    /\ NC_Raise("save failed")
    /\ run_log' = [run_log EXCEPT !.fault = TRUE, !.unavailable = TRUE]

\* _save_namechange_data, lines 352-356: the collection and its indexes
NC_SaveSetup ==
    /\ pc = "nc_save_setup"
    /\ \/ /\ pc' = "nc_p65"
          /\ UNCHANGED <<progress, run_log, args, loc>>
       \/ NC_SaveRaise
    /\ UNCHANGED <<sync_records, stock_namechange>>
    /\ UNCHANGED ncFrame

\* lines 413-419
NC_Progress65 ==
    /\ pc = "nc_p65"
    /\ Emit("namechange", [progress_percent |-> 65])
    /\ loc' = [loc EXCEPT !.i = 0, !.docs = {}]
    /\ pc' = "nc_save_row"
    /\ UNCHANGED <<sync_records, stock_namechange, run_log>>
    /\ UNCHANGED <<args, ncFrame>>

\* lines 421-464: row i of the data (0-based, as enumerate counts); a row
\* whose existence check raises is logged and skipped
NC_SaveRow ==
    /\ pc = "nc_save_row"
    /\ loc.i < Len(loc.data)
    /\ LET doc == NamechangeDoc(loc.data[loc.i + 1])
       IN  \/ /\ loc' = [loc EXCEPT
                            !.i = @ + 1,
                            !.docs = IF FindExisting(stock_namechange, doc)
                                     THEN @ ELSE @ \cup {doc}]
              /\ IF loc.i % 100 = 0
                 THEN Emit("namechange",
                           [progress_percent |-> 65 + (loc.i * 25) \div Len(loc.data)])
                 ELSE UNCHANGED progress
              /\ UNCHANGED run_log
           \/ /\ loc' = [loc EXCEPT !.i = @ + 1]
              /\ run_log' = [run_log EXCEPT !.fault = TRUE]
              /\ UNCHANGED progress
    /\ UNCHANGED <<pc, sync_records, stock_namechange>>
    /\ UNCHANGED <<args, ncFrame>>

\* lines 466-471: the remaining documents are inserted
NC_SaveFlush ==
    /\ pc = "nc_save_row"
    /\ loc.i >= Len(loc.data)
    /\ \/ /\ stock_namechange' = stock_namechange \cup loc.docs
          /\ run_log' = [run_log EXCEPT
                            !.inserted = @ + Cardinality(loc.docs), !.saved = TRUE]
          /\ pc' = "nc_p90"
          /\ UNCHANGED <<progress, args, loc>>
       \/ /\ loc.docs # {}
          /\ NC_SaveRaise
          /\ UNCHANGED stock_namechange
    /\ UNCHANGED sync_records
    /\ UNCHANGED ncFrame

\* lines 137-140
NC_Progress90 ==
    /\ pc = "nc_p90"
    /\ Emit("namechange", [progress_percent |-> 90])
    /\ pc' = "nc_update_sync"
    /\ UNCHANGED <<loc, sync_records, stock_namechange, run_log>>
    /\ UNCHANGED <<args, ncFrame>>

\* _update_sync_record(end_date): the upsert of last_sync_date; a failure of
\* the write is logged and the run goes on
_update_sync_record(sync_date) ==
    \/ /\ sync_records' = sync_date
       /\ run_log' = [run_log EXCEPT !.ckpt_written = TRUE]
    \/ /\ run_log' = [run_log EXCEPT !.fault = TRUE]
       /\ UNCHANGED sync_records

\* line 142
NC_UpdateSyncRecord ==
    /\ pc = "nc_update_sync"
    /\ _update_sync_record(loc.end_date)
    /\ pc' = "nc_p100"
    /\ UNCHANGED <<progress, loc, stock_namechange>>
    /\ UNCHANGED <<args, ncFrame>>

\* lines 153-160
NC_Completed ==
    /\ pc = "nc_p100"
    /\ Emit("namechange", [progress_percent |-> 100, status |-> "completed"])
    /\ Return
    /\ UNCHANGED <<sync_records, stock_namechange, run_log>>
    /\ UNCHANGED ncFrame

\* get_progress of a route (the stock-info route returns the record as it is)
Poll(c) ==
    /\ c # "stock_info"
    /\ progress' = [progress EXCEPT ![c] = PollProgress(@)]
    /\ UNCHANGED <<now, active, pc, args, loc, sync_records, stock_namechange,
                   db, tasks, run_log, store, last_write, reader, gateway>>

\* The clock moves on between runs.
Tick ==
    /\ Idle
    /\ \E d \in ClockDays : d > now /\ now' = d
    /\ UNCHANGED <<progress, active, pc, args, loc, sync_records, stock_namechange,
                   db, tasks, run_log, store, last_write, reader, gateway>>

NC_Next ==
    \/ \E s \in StartDates, e \in EndDates, f \in BOOLEAN : NC_Invoke(s, e, f)
    \/ NC_Begin \/ NC_ProApi \/ NC_Progress10 \/ NC_ValidateToken \/ NC_Progress15
    \/ NC_ResolveDates \/ NC_Progress20
    \/ NC_FetchMonth \/ NC_FetchMonthFails \/ NC_FetchLoopEnd \/ NC_Concat
    \/ NC_StockList \/ NC_Stock \/ NC_BatchSave \/ NC_BatchProgress
    \/ NC_Fetched \/ NC_SaveSetup \/ NC_Progress65 \/ NC_SaveRow \/ NC_SaveFlush
    \/ NC_Progress90 \/ NC_UpdateSyncRecord \/ NC_Completed

\* The collections written by key-based upsert.
Collections == {"stock_dividends", "index_market", "adj_factor", "factor_base",
                "stock_info_new"}

\* No run has started: everything of the services but the progress records.
SyncIdle ==
    /\ now = 20230410
    /\ active \in Cats
    /\ pc = "idle"
    /\ args = NoArgs
    /\ loc = NoLoc
    /\ sync_records = None
    /\ stock_namechange = {}
    /\ db = [c \in Collections |-> <<>>]
    /\ tasks = <<>>
    /\ run_log = [ckpt0 |-> None, status0 |-> "idle", full |-> FALSE, end_date |-> None,
                  unavailable |-> FALSE, inserted |-> 0, fault |-> FALSE,
                  fetched |-> FALSE, saved |-> FALSE, ckpt_written |-> FALSE,
                  windows |-> <<>>, window_failed |-> FALSE,
                  asked |-> {}, skipped |-> {}, absent |-> {}, covered0 |-> FALSE,
                  last_query |-> NoQuery, page_raised |-> FALSE, ceiling |-> FALSE,
                  write_failed |-> FALSE, written |-> <<>>,
                  coll0 |-> {}, index_market0 |-> <<>>, queried |-> <<>>,
                  prev_windows |-> <<>>]

\* No run has started and every progress record is idle.
SyncInit == SyncIdle /\ progress = [c \in Cats |-> IdleProgress]


(***************************************************************************)
(* The store: a collection is the sequence of its documents in insertion   *)
(* order; a document maps field names to values, a missing field reads as  *)
(* null (None).                                                            *)
(***************************************************************************)
Get(doc, f) == IF f \in DOMAIN doc THEN doc[f] ELSE None

\* The documents of coll that a filter (a document of the fields to match) selects.
Matches(coll, filter) ==
    {i \in 1..Len(coll) : \A f \in DOMAIN filter : Get(coll[i], f) = filter[f]}

\* {'$set': record} applied to a document
SetFields(doc, record) ==
    [f \in DOMAIN doc \cup DOMAIN record |-> IF f \in DOMAIN record THEN record[f] ELSE doc[f]]

\* A unique index on the fields uniq (none when uniq is empty) admits the collection.
UniqueOk(coll, uniq) ==
    \/ uniq = {}
    \/ \A i, j \in 1..Len(coll) :
          (i # j) => (\E f \in uniq : Get(coll[i], f) # Get(coll[j], f))

Min(S) == CHOOSE x \in S : \A y \in S : x <= y

\* A writer that inserts every record instead of upserting it by its key.
UpdateOneInsertOnly(coll, filter, record, uniq) ==
    LET inserted == Append(coll, SetFields(filter, record))
    IN  IF ~UniqueOk(inserted, uniq)
        THEN [coll |-> coll, matched |-> 0, modified |-> 0, upserted |-> 0, error |-> TRUE]
        ELSE [coll |-> inserted, matched |-> 0, modified |-> 0, upserted |-> 1,
              error |-> FALSE]

\* UpdateOne(filter, {'$set': record}, upsert=True) on a collection with a
\* unique index on uniq: the first matching document is updated, and counts
\* as modified when the update changes it; without a match the filter's
\* fields and the record are inserted; an outcome the unique index refuses
\* is a duplicate-key error that leaves the collection as it was.
UpdateOneUpsert(coll, filter, record, uniq) ==
    LET hit == Matches(coll, filter)
        i == Min(hit)
        updated == [coll EXCEPT ![i] = SetFields(coll[i], record)]
        inserted == Append(coll, SetFields(filter, record))
        after == IF hit # {} THEN updated ELSE inserted
    IN  IF ~UniqueOk(after, uniq)
        THEN [coll |-> coll, matched |-> 0, modified |-> 0, upserted |-> 0, error |-> TRUE]
        ELSE [coll |-> after,
              matched |-> IF hit # {} THEN 1 ELSE 0,
              modified |-> IF hit # {} /\ updated # coll THEN 1 ELSE 0,
              upserted |-> IF hit = {} THEN 1 ELSE 0,
              error |-> FALSE]

\* collection.bulk_write(upsert_operations): ordered, so the operations run
\* in sequence and the first that fails ends the write (BulkWriteError);
\* what was applied before it stays.  ops is the sequence of the records,
\* key the fields the filter of each operation takes from its record.
RECURSIVE BulkWrite(_, _, _, _)
BulkWrite(coll, ops, key, uniq) ==
    IF ops = <<>>
    THEN [coll |-> coll, matched |-> 0, modified |-> 0, upserted |-> 0, error |-> FALSE]
    ELSE LET record == Head(ops)
             filter == [f \in key |-> record[f]]
             one == UpdateOneUpsert(coll, filter, record, uniq)
             rest == BulkWrite(one.coll, Tail(ops), key, uniq)
         IN  IF one.error THEN one
             ELSE [coll |-> rest.coll,
                   matched |-> one.matched + rest.matched,
                   modified |-> one.modified + rest.modified,
                   upserted |-> one.upserted + rest.upserted,
                   error |-> rest.error]

\* The fields of the UpdateOne filter, per collection.
KeyFields(c) ==
    CASE c = "stock_dividends" -> {"symbol", "ex_div_date"}
      [] c = "stock_info_new" -> {"symbol"}
      [] OTHER -> {"date", "symbol"}

\* The unique index the lazy setup of mongo_utils creates, per collection
\* (symbol_date_idx of the other collections is not unique).
UniqueIndex(c) ==
    CASE c = "stock_dividends" -> {"symbol", "ex_div_date"}
      [] c = "index_market" -> {"symbol", "trade_date"}
      [] OTHER -> {}


(***************************************************************************)
(* SpecStore: sync runs, one after the other, bulk-upsert record sets into *)
(* one collection.                                                         *)
(***************************************************************************)

\* The longest record set of one bulk write.
MaxBatch == 2

\* NaN: the missing value of a numeric column (the amounts are not negative).
NaN == -1

\* The amounts of a provider row that names none.
NoAmounts ==
    [stk_div |-> NaN, stk_bo_rate |-> NaN, stk_co_rate |-> NaN,
     cash_div |-> NaN, cash_div_tax |-> NaN]

\* A row of pro.dividend: of the fields asked for, the model keeps the code,
\* the announcement and ex-dividend dates and the five amounts.
ProviderRow(ts_code, ann_date, ex_date, amounts) ==
    [ts_code |-> ts_code, ann_date |-> ann_date, ex_date |-> ex_date,
     stk_div |-> amounts.stk_div, stk_bo_rate |-> amounts.stk_bo_rate,
     stk_co_rate |-> amounts.stk_co_rate, cash_div |-> amounts.cash_div,
     cash_div_tax |-> amounts.cash_div_tax]

\* Raw dividend rows of the provider (ts_code, ann_date, ex_date): the same
\* ex-dividend date of a symbol may be announced on several days.
DividendRows ==
    { ProviderRow("A", 1, 1, NoAmounts),
      ProviderRow("A", 2, 1, NoAmounts),
      ProviderRow("A", 1, 2, NoAmounts),
      ProviderRow("B", 1, 1, NoAmounts) }

\* Records of the other collections: one value per (symbol, date) and run,
\* a value the provider may have revised by the next run.
DatedRecords ==
    { [symbol |-> "A", date |-> 1, value |-> 1],
      [symbol |-> "A", date |-> 1, value |-> 2],
      [symbol |-> "A", date |-> 2, value |-> 1],
      [symbol |-> "B", date |-> 1, value |-> 1] }

SeqsUpTo(S, n) == UNION {[1..k -> S] : k \in 1..n}

\* drop_duplicates(subset=['ts_code', 'ann_date', 'ex_date'], keep='first')
\* of clean_dividend_data
DropDuplicateRows(rows) ==
    LET same(a, b) == /\ a.ts_code = b.ts_code
                      /\ a.ann_date = b.ann_date
                      /\ a.ex_date = b.ex_date
        keep == {i \in 1..Len(rows) : \A j \in 1..(i - 1) : ~same(rows[j], rows[i])}
        F[i \in 0..Len(rows)] ==
            IF i = 0 THEN <<>>
            ELSE IF i \in keep THEN Append(F[i - 1], rows[i]) ELSE F[i - 1]
    IN  F[Len(rows)]

\* get_exchange_suffix (panda_common.utils.stock_utils) gives the symbol of a
\* provider code: it keeps the code and its exchange suffix.
get_exchange_suffix(ts_code) == ts_code

\* Series.fillna(value)
fillna(v, value) == IF v = NaN THEN value ELSE v

\* A normalisation that leaves the amounts as the provider gave them.
DividendRecordNoDefaults(row) ==
    [symbol |-> get_exchange_suffix(row.ts_code), announcement_date |-> row.ann_date,
     ex_div_date |-> row.ex_date,
     share_ratio |-> row.stk_bo_rate,
     share_trans_ratio |-> row.stk_co_rate,
     total_share_ratio |-> row.stk_div,
     cash_div_after_tax |-> row.cash_div,
     cash_div_before_tax |-> row.cash_div_tax,
     unit_cash_div_tax |-> row.cash_div_tax]

\* _process_and_store_dividend_data up to the bulk write: the rename of the
\* fields (ts_code -> symbol, ann_date -> announcement_date, ex_date -> ex_div_date)
\* and the defaults of the amounts (lines 311-323); unit_cash_div_tax is a
\* copy of cash_div_before_tax.
DividendRecord(row) ==
    [symbol |-> get_exchange_suffix(row.ts_code), announcement_date |-> row.ann_date,
     ex_div_date |-> row.ex_date,
     share_ratio |-> fillna(row.stk_bo_rate, 0),
     share_trans_ratio |-> fillna(row.stk_co_rate, 0),
     total_share_ratio |-> fillna(row.stk_div, 0),
     cash_div_after_tax |-> fillna(row.cash_div, 0),
     cash_div_before_tax |-> fillna(row.cash_div_tax, 0),
     unit_cash_div_tax |-> fillna(row.cash_div_tax, 0)]

DividendRecords(rows) ==
    LET kept == DropDuplicateRows(rows)
    IN  [i \in 1..Len(kept) |-> DividendRecord(kept[i])]

DistinctKeys(recs, key) ==
    \A i, j \in 1..Len(recs) :
        (i # j) => (\E f \in key : recs[i][f] # recs[j][f])

\* The record sets a run may hand to the bulk write of collection c.
RecordSets(c) ==
    IF c = "stock_dividends"
    THEN {DividendRecords(rows) : rows \in SeqsUpTo(DividendRows, MaxBatch)}
    ELSE {recs \in SeqsUpTo(DatedRecords, MaxBatch) : DistinctKeys(recs, KeyFields(c))}

\* One run's bulk write of records into the collection.
BulkUpsert(records) ==
    LET r == BulkWrite(store.docs, records, KeyFields(store.name), UniqueIndex(store.name))
    IN  /\ store' = [store EXCEPT !.docs = r.coll]
        /\ last_write' = [records |-> records, repeated |-> FALSE,
                          matched |-> r.matched, modified |-> r.modified,
                          upserted |-> r.upserted, error |-> r.error,
                          count_before |-> Len(store.docs),
                          count_after |-> Len(r.coll)]

\* The same bulk write a second time, with the identical record set.
BulkUpsertAgain ==
    LET r == BulkWrite(store.docs, last_write.records,
                       KeyFields(store.name), UniqueIndex(store.name))
    IN  /\ last_write.records # <<>>
        /\ ~last_write.repeated
        /\ store' = [store EXCEPT !.docs = r.coll]
        /\ last_write' = [last_write EXCEPT
                             !.repeated = TRUE,
                             !.matched = r.matched, !.modified = r.modified,
                             !.upserted = r.upserted, !.error = r.error,
                             !.count_before = Len(store.docs),
                             !.count_after = Len(r.coll)]

StoreRun ==
    /\ \E records \in RecordSets(store.name) : BulkUpsert(records)
    /\ UNCHANGED <<syncVars, reader, gateway>>

StoreRerun ==
    /\ BulkUpsertAgain
    /\ UNCHANGED <<syncVars, reader, gateway>>

StoreInit ==
    /\ store \in {[name |-> c, docs |-> <<>>] : c \in Collections}
    /\ last_write = [records |-> <<>>, repeated |-> FALSE, matched |-> 0,
                     modified |-> 0, upserted |-> 0, error |-> FALSE,
                     count_before |-> 0, count_after |-> 0]

\* The progress objects play no part in the bulk writes: one category stands
\* for all of them here.
InitStore ==
    SyncInit /\ StoreInit /\ active = "dividend" /\ reader = <<>> /\ gateway = <<>>

NextStore == StoreRun \/ StoreRerun

SpecStore == InitStore /\ [][NextStore]_vars

(***************************************************************************)
(* C2.  A second bulk upsert of an identical record set modifies no stored *)
(* record (modified count 0) and leaves the number of records in the       *)
(* collection unchanged, for every collection written by key-based upsert. *)
(***************************************************************************)
C2_ReUpsertIsNoOp ==
    last_write.repeated =>
        (last_write.modified = 0 /\ last_write.count_after = last_write.count_before)

(***************************************************************************)
(* C3.  After any sequence of sync runs that do not overlap in time, a     *)
(* collection written by key-based upsert holds at most one record per     *)
(* composite key value.                                                    *)
(***************************************************************************)
C3_OneRecordPerKey ==
    \A i, j \in 1..Len(store.docs) :
        (i # j) => (\E f \in KeyFields(store.name) :
                        Get(store.docs[i], f) # Get(store.docs[j], f))

\* A later run has found a stored record under its key and several records are stored.
C3_Witness ==
    /\ Len(store.docs) >= 2
    /\ last_write.matched >= 1
    /\ ~last_write.repeated


(***************************************************************************)
(* Adjustment factors: routes/data_clean/adj_factor_data_clean.py and      *)
(* services/ts_adj_factor_clean_pro_service.py.  The days of a batch are   *)
(* submitted to a thread pool; each day's task walks through               *)
(* clean_daily_data on its own.                                            *)
(***************************************************************************)

\* What no step of a running task of the other categories changes.
runFrame == <<now, active, sync_records, stock_namechange, store, last_write, reader, gateway>>

\* The longest window of an adjustment-factor run, in days.
MaxAdjDays == 2

\* ThreadPoolExecutor(max_workers=8)
max_workers == 8

\* clean_history_data: batch_size = 10
adj_batch_size == 10

\* pd.date_range(start=start_date, end=end_date, freq='D')
DateRange(start_date, end_date) ==
    IF end_date < start_date THEN <<>>
    ELSE [k \in 1..(DaysBetween(end_date, start_date) + 1) |-> AddDays(start_date, k - 1)]

\* mongo_find(stock_market, {"date": date}): the symbols with a market
\* record of the day; 2023-01-02 is no trading day and has none.
StockMarket(date) == IF date = 20230102 THEN <<>> ELSE <<"A">>

\* data.merge(adj_factor_data, on='ts_code', how='left').to_dict('records')
AdjFactorRecords(date) ==
    [k \in 1..Len(StockMarket(date)) |->
        [date |-> date, symbol |-> StockMarket(date)[k], adj_factor |-> 1]]

AdjStarts == {None, 20230102, 20230103}

\* upsert_adj_factor: the progress dict is replaced, the service is built,
\* and only then the background task is added.  When the constructor raises
\* (no TS_TOKEN, pro_api fails) the request fails and no task runs.
AF_Invoke(start_date, end_date) ==
    /\ CanInvoke("adj_factor")
    /\ progress' = [progress EXCEPT !["adj_factor"] =
                       [progress_percent |-> 0, status |-> "running", error_message |-> ""]]
    /\ tasks' = <<>>
    /\ \/ /\ pc' = "af_start"
          /\ args' = [start_date |-> start_date, end_date |-> end_date]
          /\ loc' = [trading_days |-> <<>>, i |-> 0, j |-> 0, processed_days |-> 0]
          /\ run_log' = NewRunLog
       \/ /\ pc' = "idle"
          /\ args' = NoArgs
          /\ loc' = NoLoc
          /\ run_log' = [NewRunLog EXCEPT !.fault = TRUE]
    /\ UNCHANGED <<now, active, sync_records, stock_namechange, db, store, last_write, reader, gateway>>

\* clean_history_data, lines 43-49; a start or end that is no date makes
\* pd.date_range raise, which run_with_error_handling reports
AF_Start ==
    /\ pc = "af_start"
    /\ IF args.start_date = None \/ args.end_date = None
       THEN /\ progress' = [progress EXCEPT
                               !["adj_factor"] = ErrorProgress(@, "date_range failed")]
            /\ Return
       ELSE /\ loc' = [loc EXCEPT
                          !.trading_days = DateRange(args.start_date, args.end_date)]
            /\ pc' = "af_batch"
            /\ UNCHANGED <<progress, args>>
    /\ UNCHANGED <<db, tasks, run_log>>
    /\ UNCHANGED runFrame

\* trading_days[i:i + batch_size]
BatchDays(trading_days, i) ==
    SubSeq(trading_days, i + 1,
           IF i + adj_batch_size < Len(trading_days) THEN i + adj_batch_size
           ELSE Len(trading_days))

\* lines 53-63: the next batch is submitted; after the last, line 84, the
\* function returns and nothing more is written to the progress record
AF_Batch ==
    /\ pc = "af_batch"
    /\ IF loc.i < Len(loc.trading_days)
       THEN LET batch_days == BatchDays(loc.trading_days, loc.i)
            IN  /\ tasks' = [k \in 1..Len(batch_days) |->
                                [date |-> batch_days[k], pc |-> "queued"]]
                /\ loc' = [loc EXCEPT !.j = 1]
                /\ pc' = "af_await"
                /\ UNCHANGED args
       ELSE /\ Return
            /\ UNCHANGED tasks
    /\ UNCHANGED <<progress, db, run_log>>
    /\ UNCHANGED runFrame

\* The tasks a worker thread is running.
Running(ts) == {t \in DOMAIN ts : ts[t].pc \in {"find", "query", "write"}}

\* A free worker takes the oldest queued task.
AF_TaskStart(t) ==
    /\ tasks[t].pc = "queued"
    /\ Cardinality(Running(tasks)) < max_workers
    /\ \A u \in 1..(t - 1) : tasks[u].pc # "queued"
    /\ tasks' = [tasks EXCEPT ![t].pc = "find"]
    /\ UNCHANGED <<progress, pc, loc, db, run_log>>
    /\ UNCHANGED <<args, runFrame>>

\* clean_daily_data, lines 89-98: no market records of the day: return;
\* else the task enters self.pro.query("adj_factor", ...), line 101
AF_TaskFind(t) ==
    /\ tasks[t].pc = "find"
    /\ \/ /\ tasks' = [tasks EXCEPT
                          ![t].pc = IF StockMarket(tasks[t].date) = <<>>
                                    THEN "done" ELSE "query"]
          /\ UNCHANGED run_log
       \/ /\ tasks' = [tasks EXCEPT ![t].pc = "failed"]
          /\ run_log' = [run_log EXCEPT !.fault = TRUE]
    /\ UNCHANGED <<progress, pc, loc, db>>
    /\ UNCHANGED <<args, runFrame>>

\* line 101: the provider call returns or raises
AF_TaskQuery(t) ==
    /\ tasks[t].pc = "query"
    /\ \/ /\ tasks' = [tasks EXCEPT ![t].pc = "write"]
          /\ UNCHANGED run_log
       \/ /\ tasks' = [tasks EXCEPT ![t].pc = "failed"]
          /\ run_log' = [run_log EXCEPT !.fault = TRUE]
    /\ UNCHANGED <<progress, pc, loc, db>>
    /\ UNCHANGED <<args, runFrame>>

\* lines 102-116: the index setup and the bulk write of the day's records
AF_TaskWrite(t) ==
    /\ tasks[t].pc = "write"
    /\ LET r == BulkWrite(db["adj_factor"], AdjFactorRecords(tasks[t].date),
                          KeyFields("adj_factor"), UniqueIndex("adj_factor"))
       IN  \/ /\ ~r.error
              /\ db' = [db EXCEPT !["adj_factor"] = r.coll]
              /\ tasks' = [tasks EXCEPT ![t].pc = "done"]
              /\ run_log' = [run_log EXCEPT !.inserted = @ + r.upserted]
           \/ /\ tasks' = [tasks EXCEPT ![t].pc = "failed"]
              /\ run_log' = [run_log EXCEPT !.fault = TRUE]
              /\ UNCHANGED db
    /\ UNCHANGED <<progress, pc, loc>>
    /\ UNCHANGED <<args, runFrame>>

\* lines 65-77: future.result() of the j-th task, in submission order.  A
\* day that succeeded counts and is reported (the integer part of
\* processed_days / total_days * 100); a day that raised is only logged.
AF_Await ==
    /\ pc = "af_await"
    /\ loc.j <= Len(tasks)
    /\ tasks[loc.j].pc \in {"done", "failed"}
    /\ IF tasks[loc.j].pc = "done"
       THEN /\ loc' = [loc EXCEPT !.j = @ + 1, !.processed_days = @ + 1]
            /\ Emit("adj_factor",
                    [progress_percent |->
                        ((loc.processed_days + 1) * 100) \div Len(loc.trading_days)])
       ELSE /\ loc' = [loc EXCEPT !.j = @ + 1]
            /\ UNCHANGED progress
    /\ UNCHANGED <<pc, db, tasks, run_log>>
    /\ UNCHANGED <<args, runFrame>>

\* The pool is left when every future has been awaited; the next batch.
AF_BatchEnd ==
    /\ pc = "af_await"
    /\ loc.j > Len(tasks)
    /\ tasks' = <<>>
    /\ loc' = [loc EXCEPT !.i = @ + adj_batch_size]
    /\ pc' = "af_batch"
    /\ UNCHANGED <<progress, db, run_log>>
    /\ UNCHANGED <<args, runFrame>>

AF_Next ==
    \/ \E s \in AdjStarts, n \in 0..MaxAdjDays :
          AF_Invoke(s, IF s = None THEN None ELSE AddDays(s, n - 1))
    \/ AF_Start \/ AF_Batch \/ AF_Await \/ AF_BatchEnd
    \/ \E t \in DOMAIN tasks :
          AF_TaskStart(t) \/ AF_TaskFind(t) \/ AF_TaskQuery(t) \/ AF_TaskWrite(t)


(***************************************************************************)
(* Dividends: routes/data_clean/dividend_data_clean.py,                    *)
(* services/ts_dividend_clean_service.py, data/tushare_dividend_cleaner.py *)
(***************************************************************************)

\* The longest window of a history run, in days.
MaxDivDays == 2

\* The provider's dividend rows, in the order it returns them.  A row may
\* lack the ex-dividend date; codes of the Beijing exchange end in BJ.
DividendData ==
    << ProviderRow("A", 20230105, 20230120,
                   [NoAmounts EXCEPT !.cash_div = 5, !.cash_div_tax = 6]),
       ProviderRow("A", 20230106, 20230120,
                   [NoAmounts EXCEPT !.stk_div = 3, !.stk_bo_rate = 1, !.stk_co_rate = 2]),
       ProviderRow("B", 20230106, None, [NoAmounts EXCEPT !.cash_div_tax = 1]),
       ProviderRow("C.BJ", 20230105, 20230110, NoAmounts),
       ProviderRow("A", 20230401, 20230415, NoAmounts) >>

BJCodes == {"C.BJ"}

\* pro.dividend(ann_date=str_date, ...)
DividendOf(str_date) == SelectSeq(DividendData, LAMBDA r : r.ann_date = str_date)

\* pro.dividend(ts_code=ts_code, ...)
DividendOfSymbol(ts_code) == SelectSeq(DividendData, LAMBDA r : r.ts_code = ts_code)

\* limit = 2000: the page size
limit == 2000

\* for offset in range(0, 99): the most pages of one sub-query
max_pages == 99

\* How much the provider may hold for the sub-query of a date or of a
\* symbol beyond the rows of interest: "pages", as much as fills two pages
\* and a part of a third; "all", more than all the pages asked for.
DateLoads(str_date) == IF str_date = 20230105 THEN {"pages", "all"} ELSE {}
SymbolLoads(ts_code) == IF ts_code = "A" THEN {"pages"} ELSE {"all"}

\* How many records the provider holds for a sub-query whose rows of
\* interest are rows.
Totals(loads, rows) ==
    {Len(rows)}
        \cup (IF "pages" \in loads THEN {2 * limit + 100} ELSE {})
        \cup (IF "all" \in loads THEN {max_pages * limit + 1} ELSE {})

\* The pages (0, 1, ...) whose request may raise.
FailPages == {0, 1}

\* df of pro.dividend(..., offset=page * limit, limit=limit) for a sub-query
\* of total records, n its length: the rows of interest come first in the
\* provider's order.
DividendPage(rows, total, page) ==
    LET offset == page * limit
        n == IF total - offset >= limit THEN limit
             ELSE IF total > offset THEN total - offset ELSE 0
    IN  [offset |-> offset, n |-> n, rows |-> IF page = 0 /\ n > 0 THEN rows ELSE <<>>]

\* pd.concat of pages appended to dfs: the rows of interest among them
RECURSIVE PageRows(_)
PageRows(pages) == IF pages = <<>> THEN <<>> ELSE Head(pages).rows \o PageRows(Tail(pages))

\* One pass of the page loop for sub-query q: the request of page loc.page
\* raises, or returns a page that is appended unless empty; the loop goes
\* on after a full page that is not the last one asked for.  The variants
\* "drop_short" (the break taken before the append) and "discard_on_raise"
\* (the except clause throws away the sub-query's pages) are not the code's.
PageStepOf(q, variant) ==
    LET requested == Append(q.requested, loc.page * limit)
        df == DividendPage(q.rows, q.total, loc.page)
        short == df.n < limit
        last == loc.page + 1 >= max_pages
        keep == df.n > 0 /\ ~(short /\ variant = "drop_short")
    IN  \/ \* the request raises: logged, break
           /\ loc.page \in FailPages
           /\ run_log' = [run_log EXCEPT
                             !.last_query =
                                 [q EXCEPT !.requested = requested,
                                           !.appended = IF variant = "discard_on_raise"
                                                        THEN <<>> ELSE @,
                                           !.ended = "raised"],
                             !.fault = TRUE, !.page_raised = TRUE]
           /\ loc' = [loc EXCEPT
                         !.page = 0,
                         !.dfs = IF variant = "discard_on_raise"
                                 THEN SubSeq(@, 1, Len(@) - Len(PageRows(q.appended)))
                                 ELSE @]
        \/ \* the page is returned
           /\ run_log' = [run_log EXCEPT
                             !.last_query =
                                 [q EXCEPT !.requested = requested,
                                           !.appended = IF keep THEN Append(@, df) ELSE @,
                                           !.ended = IF short THEN "short"
                                                     ELSE IF last THEN "ceiling" ELSE ""],
                             !.ceiling = @ \/ (~short /\ last)]
           /\ loc' = [loc EXCEPT
                         !.page = IF short \/ last THEN 0 ELSE @ + 1,
                         !.dfs = IF keep THEN @ \o df.rows ELSE @]

\* The sub-query whose page loc.page is requested: at page 0 a new one, of
\* as many records as the provider holds for it.
PageStep(loads, rows, variant) ==
    IF loc.page = 0
    THEN \E total \in Totals(loads, rows) :
            PageStepOf([NoQuery EXCEPT !.rows = rows, !.total = total], variant)
    ELSE PageStepOf(run_log.last_query, variant)

\* A page loop that leaves the loop on a short page before appending it.
FetchPageDropShort(loads, rows) == PageStep(loads, rows, "drop_short")

\* A page loop whose except clause throws away the pages of the sub-query.
FetchPageDiscardOnRaise(loads, rows) == PageStep(loads, rows, "discard_on_raise")

\* lines 120-142 and 236-259: one pass of the page loop
FetchPage(loads, rows) == PageStep(loads, rows, "code")

\* A filter that leaves out the Beijing exchange only.
DividendFilterBJOnly(records) ==
    SelectSeq(records, LAMBDA r : r.symbol \notin BJCodes)

\* lines 344-350: the Beijing exchange is left out, the ex-dividend date is required
DividendFilter(records) ==
    SelectSeq(records, LAMBDA r : r.symbol \notin BJCodes /\ r.ex_div_date # None)

\* pd.date_range(start_dt, end_dt, freq='MS'): the first days of the months
\* from m on that are not after end_date.
RECURSIVE MonthStartsFrom(_, _)
MonthStartsFrom(m, end_date) ==
    IF m > end_date THEN <<>>
    ELSE <<m>> \o MonthStartsFrom(FirstOfMonth(AddDays(m, 31)), end_date)

\* lines 148-150: the month starts within the window, and end_dt appended
\* when it is none of them
QueryMonths(start_date, end_date) ==
    LET first == IF Day(start_date) = 1 THEN start_date
                 ELSE FirstOfMonth(AddDays(FirstOfMonth(start_date), 31))
        months == MonthStartsFrom(first, end_date)
    IN  IF \E k \in 1..Len(months) : months[k] = end_date THEN months
        ELSE Append(months, end_date)

\* lines 154-164: the days of months[idx], up to the day before months[idx + 1]
\* and for the last one up to end_dt, for idx from k on
RECURSIVE MonthDatesFrom(_, _, _)
MonthDatesFrom(months, k, end_date) ==
    IF k > Len(months) THEN <<>>
    ELSE LET month_end == IF k < Len(months) THEN AddDays(months[k + 1], -1)
                          ELSE end_date
         IN  DateRange(months[k], month_end) \o MonthDatesFrom(months, k + 1, end_date)

\* lines 88-164: the days the sweep queries, in order: every day of the
\* window when it spans at most 90 days, else the days month by month
SweepDates(start_date, end_date) ==
    IF DaysBetween(end_date, start_date) <= 90
    THEN DateRange(start_date, end_date)
    ELSE MonthDatesFrom(QueryMonths(start_date, end_date), 1, end_date)

\* The windows of more than 90 days asked for: one from the first of a
\* month, one from the 10th.
LongWindows == {<<20230101, 20230402>>, <<20230110, 20230411>>}

\* clean_dividend_daily / clean_dividend_history: reset the progress record,
\* add the background task.  The daily route takes the last 30 days.
DV_Invoke(start_date, end_date) ==
    /\ CanInvoke("dividend")
    /\ progress' = [progress EXCEPT !["dividend"] = ResetProgress(@)]
    /\ pc' = "dv_task"
    /\ args' = [start_date |-> start_date, end_date |-> end_date]
    /\ loc' = [dates |-> <<>>, idx |-> 0, page |-> 0, dfs |-> <<>>]
    /\ run_log' = NewRunLog
    /\ UNCHANGED <<now, active, sync_records, stock_namechange, db, tasks, store,
                   last_write, reader, gateway>>

\* The task of the route: the service is built inside its try; a failure
\* there, or a date that does not parse (strptime, lines 89-90, reported by
\* the service as an error result), ends the run with status error.
DV_Task ==
    /\ pc = "dv_task"
    /\ \/ /\ args.start_date # None /\ args.end_date # None
          /\ loc' = [loc EXCEPT !.dates = SweepDates(args.start_date, args.end_date)]
          /\ pc' = "dv_day"
          /\ run_log' = [run_log EXCEPT
                            !.windows = <<<<args.start_date, args.end_date>>>>]
          /\ UNCHANGED <<progress, args>>
       \/ /\ progress' = [progress EXCEPT
                             !["dividend"] = ErrorProgress(@, "dividend clean failed")]
          /\ run_log' = [run_log EXCEPT !.fault = TRUE, !.unavailable = TRUE]
          /\ Return
    /\ UNCHANGED <<db, tasks>>
    /\ UNCHANGED runFrame

\* lines 103-145: one day of the daily strategy: the progress report
\* (int(idx / len(dates) * 90)).
DV_Day ==
    /\ pc = "dv_day"
    /\ loc.idx < Len(loc.dates)
    /\ loc.page = 0
    /\ IF DaysBetween(args.end_date, args.start_date) <= 90
       THEN Emit("dividend", [progress_percent |-> (loc.idx * 90) \div Len(loc.dates)])
       ELSE UNCHANGED progress
    /\ run_log' = [run_log EXCEPT !.queried = Append(@, loc.dates[loc.idx + 1])]
    /\ pc' = "dv_page"
    /\ UNCHANGED <<loc, db, tasks>>
    /\ UNCHANGED <<args, runFrame>>

\* lines 120-142: one pass of the day's page loop; the next day when the
\* loop is left.
DV_Page ==
    /\ pc = "dv_page"
    /\ FetchPage(DateLoads(loc.dates[loc.idx + 1]), DividendOf(loc.dates[loc.idx + 1]))
    /\ pc' = IF run_log'.last_query.ended = "" THEN "dv_page" ELSE "dv_next_day"
    /\ UNCHANGED <<progress, db, tasks>>
    /\ UNCHANGED <<args, runFrame>>

\* line 145 and the head of the for loop: the next date
DV_NextDay ==
    /\ pc = "dv_next_day"
    /\ loc' = [loc EXCEPT !.idx = @ + 1]
    /\ pc' = "dv_day"
    /\ UNCHANGED <<progress, run_log, db, tasks>>
    /\ UNCHANGED <<args, runFrame>>

\* The route's report of the service's result
DV_Success ==
    /\ progress' = [progress EXCEPT !["dividend"] =
                       MergeProgress(@, [status |-> "completed", progress_percent |-> 100])]
    /\ Return

DV_Error ==
    /\ progress' = [progress EXCEPT
                       !["dividend"] = ErrorProgress(@, "dividend clean failed")]
    /\ run_log' = [run_log EXCEPT !.fault = TRUE, !.write_failed = TRUE]
    /\ Return

\* lines 191-206 and _process_and_store_dividend_data: nothing fetched or
\* nothing left after the filters: return; else the bulk write.  What
\* raises there (index setup, bulk write) reaches the service, which
\* returns an error result.
_process_and_store_dividend_data(dividend_data) ==
    LET records == DividendFilter([k \in 1..Len(dividend_data) |->
                                      DividendRecord(dividend_data[k])])
        r == BulkWrite(db["stock_dividends"], records,
                       KeyFields("stock_dividends"), UniqueIndex("stock_dividends"))
    IN  \/ /\ DV_Success
           /\ IF records = <<>>
              THEN UNCHANGED <<db, run_log>>
              ELSE /\ db' = [db EXCEPT !["stock_dividends"] = r.coll]
                   /\ run_log' = [run_log EXCEPT !.inserted = @ + r.upserted,
                                                 !.saved = TRUE,
                                                 !.written = records]
        \/ /\ records # <<>>
           /\ DV_Error
           /\ UNCHANGED db

\* lines 191-204: the end of the sweep of clean_dividend_data: concat,
\* drop_duplicates on (ts_code, ann_date, ex_date), process and store
DV_Store ==
    /\ pc = "dv_day"
    /\ loc.idx >= Len(loc.dates)
    /\ _process_and_store_dividend_data(DropDuplicateRows(loc.dfs))
    /\ UNCHANGED tasks
    /\ UNCHANGED runFrame

\* clean_dividend_by_symbol of the route: reset the progress record, add
\* the background task.
DV_InvokeSymbol(symbol) ==
    /\ CanInvoke("dividend")
    /\ progress' = [progress EXCEPT !["dividend"] = ResetProgress(@)]
    /\ pc' = "dv_symbol_task"
    /\ args' = [symbol |-> symbol]
    /\ loc' = [dates |-> <<>>, idx |-> 0, page |-> 0, dfs |-> <<>>]
    /\ run_log' = NewRunLog
    /\ UNCHANGED <<now, active, sync_records, stock_namechange, db, tasks, store,
                   last_write, reader, gateway>>

\* The task of the symbol route up to the page loop of
\* clean_dividend_by_symbol; the service that cannot be built ends the run
\* with status error.
DV_SymbolTask ==
    /\ pc = "dv_symbol_task"
    /\ \/ /\ pc' = "dv_symbol_page"
          /\ UNCHANGED <<progress, run_log, args, loc>>
       \/ /\ progress' = [progress EXCEPT
                             !["dividend"] = ErrorProgress(@, "dividend clean failed")]
          /\ run_log' = [run_log EXCEPT !.fault = TRUE, !.unavailable = TRUE]
          /\ Return
    /\ UNCHANGED <<db, tasks>>
    /\ UNCHANGED runFrame

\* lines 236-259: one pass of the symbol's page loop
DV_SymbolPage ==
    /\ pc = "dv_symbol_page"
    /\ FetchPage(SymbolLoads(args.symbol), DividendOfSymbol(args.symbol))
    /\ pc' = IF run_log'.last_query.ended = "" THEN "dv_symbol_page" ELSE "dv_symbol_store"
    /\ UNCHANGED <<progress, db, tasks>>
    /\ UNCHANGED <<args, runFrame>>

\* lines 261-270: concat, process and store
DV_SymbolStore ==
    /\ pc = "dv_symbol_store"
    /\ _process_and_store_dividend_data(loc.dfs)
    /\ UNCHANGED tasks
    /\ UNCHANGED runFrame

DV_Next ==
    \/ \E n \in 0..MaxDivDays : DV_Invoke(20230105, AddDays(20230105, n - 1))
    \/ DV_Invoke(None, None)
    \/ DV_Invoke(AddDays(now, -30), now)
    \/ \E w \in LongWindows : DV_Invoke(w[1], w[2])
    \/ \E symbol \in {"A", "B"} : DV_InvokeSymbol(symbol)
    \/ DV_Task \/ DV_Day \/ DV_Page \/ DV_NextDay \/ DV_Store
    \/ DV_SymbolTask \/ DV_SymbolPage \/ DV_SymbolStore


(***************************************************************************)
(* Index prices: routes/data_clean/index_market_data_clean.py,             *)
(* services/ts_index_market_clean_service.py and                           *)
(* data/tushare_index_market_cleaner.py (history).                         *)
(***************************************************************************)

\* MAJOR_INDICES (ts_code)
MAJOR_INDICES ==
    <<"000001.SH", "399001.SZ", "000300.SH", "000905.SH", "000852.SH",
      "399006.SZ", "000688.SH">>

\* The trading days the provider has index rows for.
TradeDays == <<20230104, 20230103>>

\* pro.index_daily(ts_code, start_date, end_date): newest day first
IndexDaily(ts_code, start_date, end_date) ==
    LET days == SelectSeq(TradeDays, LAMBDA d : start_date <= d /\ d <= end_date)
    IN  [k \in 1..Len(days) |-> [trade_date |-> days[k], ts_code |-> ts_code, close |-> 1]]

\* lines 175-185: record = {'date': row['trade_date'], 'symbol': row['ts_code'], ...}
IndexRecord(row) == [date |-> row.trade_date, symbol |-> row.ts_code, close |-> row.close]

\* lines 156-208: the indices from the k-th on; failing holds the indices
\* whose fetch raises.  An index whose fetch or bulk write raises is logged
\* and the loop goes on; what its bulk write had applied stays.
RECURSIVE IndexLoop(_, _, _, _, _)
IndexLoop(coll, k, start_date, end_date, failing) ==
    IF k > Len(MAJOR_INDICES) THEN [coll |-> coll, fault |-> FALSE, write_failed |-> FALSE]
    ELSE LET ts_code == MAJOR_INDICES[k]
             df == IndexDaily(ts_code, start_date, end_date)
             ops == [n \in 1..Len(df) |-> IndexRecord(df[n])]
             r == BulkWrite(coll, ops, KeyFields("index_market"),
                            UniqueIndex("index_market"))
             rest == IndexLoop(IF ts_code \in failing THEN coll ELSE r.coll,
                               k + 1, start_date, end_date, failing)
         IN  [coll |-> rest.coll,
              fault |-> rest.fault \/ ts_code \in failing \/ r.error,
              write_failed |-> rest.write_failed \/ (ts_code \notin failing /\ r.error)]

\* The sets of indices whose fetch raises in one run: none, the first, all.
IndexFaultAll == {MAJOR_INDICES[k] : k \in 1..Len(MAJOR_INDICES)}

IndexFaults == {{}, {MAJOR_INDICES[1]}, IndexFaultAll}

\* upsert_index_market: reset the progress record, add the background task.
IM_Invoke(start_date, end_date) ==
    /\ CanInvoke("index_market")
    /\ progress' = [progress EXCEPT !["index_market"] = ResetProgress(@)]
    /\ pc' = "im_task"
    /\ args' = [start_date |-> start_date, end_date |-> end_date]
    /\ loc' = [dates |-> <<>>]
    /\ run_log' = NewRunLog
    /\ UNCHANGED <<now, active, sync_records, stock_namechange, db, tasks, store,
                   last_write, reader, gateway>>

\* run_task with task_type history.  The service's constructor raising is
\* reported as an error.  clean_index_market_history catches whatever
\* raises in it (lines 212-213) and returns, so the service reports success
\* and the route writes completed: with the store down, the drop fails
\* (logged), the index setup raises and nothing is written; with the store
\* up, the collection is dropped and filled index by index.
IM_Task ==
    /\ pc = "im_task"
    /\ \/ /\ progress' = [progress EXCEPT
                             !["index_market"] = ErrorProgress(@, "index clean failed")]
          /\ run_log' = [run_log EXCEPT !.fault = TRUE, !.unavailable = TRUE]
          /\ UNCHANGED db
       \/ /\ progress' = [progress EXCEPT !["index_market"] =
                             MergeProgress(@, [status |-> "completed",
                                               progress_percent |-> 100])]
          /\ \/ /\ run_log' = [run_log EXCEPT !.fault = TRUE, !.unavailable = TRUE]
                /\ UNCHANGED db
             \/ \E failing \in IndexFaults :
                   LET r == IndexLoop(<<>>, 1, args.start_date, args.end_date, failing)
                   IN  /\ db' = [db EXCEPT !["index_market"] = r.coll]
                       /\ run_log' = [run_log EXCEPT
                                         !.windows = <<<<args.start_date, args.end_date>>>>,
                                         !.asked = IndexFaultAll \ failing,
                                         !.inserted = Len(r.coll),
                                         !.fault = r.fault,
                                         !.write_failed = r.write_failed,
                                         !.unavailable =
                                             (failing = IndexFaultAll),
                                         !.saved = TRUE]
    /\ Return
    /\ UNCHANGED tasks
    /\ UNCHANGED runFrame

IM_Next ==
    \/ \E e \in {20230103, 20230104} : IM_Invoke(20230103, e)
    \/ IM_Task

(***************************************************************************)
(* Stock info: routes/data_clean/stock_info_data_clean.py and              *)
(* data/tushare_stock_info_cleaner.py.                                     *)
(***************************************************************************)

\* What the provider lists: stocks (stock_basic), ETFs (fund_basic) and
\* indices (index_basic), as records keyed by symbol.
StockInfoData ==
    [stocks |-> <<[symbol |-> "A", type |-> 0], [symbol |-> "B", type |-> 0]>>,
     etfs |-> <<[symbol |-> "E", type |-> 2]>>,
     indices |-> <<[symbol |-> "000001.SH", type |-> 1]>>]

\* stock_info_clean: reset the progress record, add the background task.
SI_Invoke ==
    /\ CanInvoke("stock_info")
    /\ progress' = [progress EXCEPT !["stock_info"] = ResetProgress(@)]
    /\ pc' = "si_task"
    /\ args' = [start_date |-> None, end_date |-> None]
    /\ loc' = [dates |-> <<>>]
    /\ run_log' = NewRunLog
    /\ UNCHANGED <<now, active, sync_records, stock_namechange, db, tasks, store,
                   last_write, reader, gateway>>

\* run_task: the cleaner is built (an exception is reported as an error);
\* clean_stock_info_daily starts with progress 0, status running
SI_Task ==
    /\ pc = "si_task"
    /\ \/ /\ Emit("stock_info", [progress_percent |-> 0, status |-> "running"])
          /\ pc' = "si_stocks"
          /\ UNCHANGED <<run_log, args, loc>>
       \/ /\ progress' = [progress EXCEPT
                             !["stock_info"] = ErrorProgress(@, "cleaner failed")]
          /\ run_log' = [run_log EXCEPT !.fault = TRUE, !.unavailable = TRUE]
          /\ Return
    /\ UNCHANGED <<db, tasks>>
    /\ UNCHANGED runFrame

\* _upsert_data: nothing to write: return; else the index setup and the
\* bulk write keyed by symbol
SI_Upsert(data_list) ==
    LET r == BulkWrite(db["stock_info_new"], data_list,
                       KeyFields("stock_info_new"), UniqueIndex("stock_info_new"))
    IN  /\ db' = [db EXCEPT !["stock_info_new"] = r.coll]
        /\ run_log' = [run_log EXCEPT !.inserted = @ + r.upserted]

\* lines 57-65: whatever raises in the three steps is reported as an error
SI_Except ==
    /\ progress' = [progress EXCEPT !["stock_info"] = ErrorProgress(@, "step failed")]
    /\ run_log' = [run_log EXCEPT !.fault = TRUE]
    /\ Return
    /\ UNCHANGED db

\* _clean_stocks, then progress 33.  A fetch that raises is logged there and
\* leaves nothing to write; the write may raise.
SI_Stocks ==
    /\ pc = "si_stocks"
    /\ \/ /\ \E records \in {StockInfoData.stocks, <<>>} : SI_Upsert(records)
          /\ Emit("stock_info", [progress_percent |-> 33])
          /\ pc' = "si_etfs"
          /\ UNCHANGED <<args, loc>>
       \/ SI_Except
    /\ UNCHANGED tasks
    /\ UNCHANGED runFrame

\* _clean_etfs, then progress 66
SI_Etfs ==
    /\ pc = "si_etfs"
    /\ \/ /\ SI_Upsert(StockInfoData.etfs)
          /\ Emit("stock_info", [progress_percent |-> 66])
          /\ pc' = "si_indices"
          /\ UNCHANGED <<args, loc>>
       \/ SI_Except
    /\ UNCHANGED tasks
    /\ UNCHANGED runFrame

\* _clean_indices, then progress 100 and status completed
SI_Indices ==
    /\ pc = "si_indices"
    /\ \/ /\ SI_Upsert(StockInfoData.indices)
          /\ Emit("stock_info", [progress_percent |-> 100, status |-> "completed"])
          /\ Return
       \/ SI_Except
    /\ UNCHANGED tasks
    /\ UNCHANGED runFrame

SI_Next == SI_Invoke \/ SI_Task \/ SI_Stocks \/ SI_Etfs \/ SI_Indices

(***************************************************************************)
(* The program: the entry points of the five categories, whose runs follow *)
(* one another, the polls of the progress records and the clock.           *)
(***************************************************************************)
StoreIdle == store = <<>> /\ last_write = <<>>

ReaderIdle == reader = <<>>

GatewayIdle == gateway = <<>>

Init == SyncInit /\ StoreIdle /\ ReaderIdle /\ GatewayIdle

Next ==
    \/ NC_Next \/ AF_Next \/ DV_Next \/ IM_Next \/ SI_Next
    \/ Tick
    \/ \E c \in Cats : Poll(c)

Spec == Init /\ [][Next]_vars


(***************************************************************************)
(* C1.  At every moment at most one call to the provider is in flight in   *)
(* the process, the per-day tasks of an adjustment-factor history run in   *)
(* the 8-worker pool included.                                             *)
(***************************************************************************)
C1_SingleFlight ==
    Cardinality({t \in DOMAIN tasks : tasks[t].pc = "query"}) <= 1

(***************************************************************************)
(* C4.  In incremental mode the persisted checkpoint after a successful    *)
(* run is never earlier than it was before the run, whatever start and end *)
(* date the caller passed.                                                 *)
(***************************************************************************)
C4_CheckpointNeverRegresses ==
    (/\ active = "namechange"
     /\ pc = "done"
     /\ ~run_log.full
     /\ progress["namechange"].status = "completed")
        => sync_records >= run_log.ckpt0

(***************************************************************************)
(* C5.  The checkpoint is written only after the fetch and the save of the *)
(* run have both returned without raising, and a run that ends in error    *)
(* leaves the persisted checkpoint as it was before the run.               *)
(***************************************************************************)
C5_CheckpointOnlyAfterDataPhase ==
    /\ run_log.ckpt_written => (run_log.fetched /\ run_log.saved)
    /\ ~run_log.ckpt_written => sync_records = run_log.ckpt0
    /\ (pc = "done" /\ progress[active].status = "error") => sync_records = run_log.ckpt0

\* A run that found a checkpoint, fetched data and failed in its save has ended.
C5_Witness ==
    /\ active = "namechange"
    /\ pc = "done"
    /\ progress["namechange"].status = "error"
    /\ run_log.fetched
    /\ ~run_log.saved
    /\ run_log.ckpt0 # None
    /\ sync_records = run_log.ckpt0

(***************************************************************************)
(* C6.  Every run that ends with status completed after writing at least   *)
(* one record to the store has set the persisted checkpoint to the end     *)
(* date of its window, in full mode as well as in incremental mode.        *)
(***************************************************************************)
C6_CompletedRunSetsCheckpoint ==
    (/\ active = "namechange"
     /\ pc = "done"
     /\ progress["namechange"].status = "completed"
     /\ run_log.inserted > 0)
        => sync_records = run_log.end_date

(***************************************************************************)
(* C7.  The status of a progress record changes only from running to       *)
(* completed or from running to error, or to running by a new invocation   *)
(* (a step taken while no task runs): completed and error are terminal for *)
(* the invocation.                                                         *)
(***************************************************************************)
C7_StatusTransitions ==
    [][\A c \in Cats :
          (progress'[c].status # progress[c].status) =>
              \/ /\ Idle
                 /\ progress'[c].status = "running"
              \/ /\ progress[c].status = "running"
                 /\ progress'[c].status \in {"completed", "error"}]_vars

\* A run invoked after a run that had ended in error has ended as completed.
C7_Witness ==
    /\ pc = "done"
    /\ run_log.status0 = "error"
    /\ progress[active].status = "completed"

(***************************************************************************)
(* C8.  Within a single run the progress_percent values written to the     *)
(* progress record never decrease and lie in 0..100, for every category    *)
(* and both modes.                                                         *)
(***************************************************************************)
C8_ProgressMonotone ==
    [][~Idle =>
          \A c \in Cats :
              /\ progress'[c].progress_percent >= progress[c].progress_percent
              /\ progress'[c].progress_percent \in 0..100]_vars

(***************************************************************************)
(* C9.  A run during which the store or the provider was out of reach ends *)
(* with status error and a non-empty error_message, never with completed.  *)
(***************************************************************************)
C9_FailureEndsInError ==
    (pc = "done" /\ run_log.unavailable)
        => /\ progress[active].status = "error"
           /\ progress[active].error_message # ""

(***************************************************************************)
(* C10.  Every invoked run reaches a terminal status, completed or error,  *)
(* in its progress record: when its task has returned, the record is       *)
(* terminal, or is at 100 percent, which the next poll turns into          *)
(* completed.                                                              *)
(***************************************************************************)
C10_ReturnedRunIsTerminal ==
    (pc = "done")
        => \/ progress[active].status \in {"completed", "error"}
           \/ progress[active].progress_percent >= 100



(***************************************************************************)
(* SpecReader: MarketDataReader of panda_data/market_data/                 *)
(* market_data_reader.py.  One get_market_data call after the other over a *)
(* stock_market collection that no call changes; the chunk reads of a call *)
(* run in its thread pool.                                                 *)
(***************************************************************************)

\* chunk_months: int = 3
chunk_months == 3

\* ThreadPoolExecutor(max_workers=8) of get_market_data
reader_max_workers == 8

\* A DataFrame, or None.
NoneDF == [is_none |-> TRUE, rows |-> <<>>]
DF(rows) == [is_none |-> FALSE, rows |-> rows]

\* The while loop of _chunk_date_range over datetime values: a chunk reaches
\* width days past its start, or to the end.
RECURSIVE ChunkLoop(_, _, _, _)
ChunkLoop(chunk_start, end, width, chunks) ==
    IF chunk_start > end THEN chunks
    ELSE LET chunk_end == Min({chunk_start + width, end})
             appended == Append(chunks, <<Strftime(chunk_start), Strftime(chunk_end)>>)
         IN  IF chunk_end >= end THEN appended
             ELSE ChunkLoop(chunk_end + 1, end, width, appended)

\* A chunking whose chunks reach chunk_months * 30 days past their start.
ChunkDateRangeWide(start_date, end_date) ==
    LET start == Strptime(start_date)
        end == Strptime(end_date)
    IN  IF start = end THEN << <<start_date, end_date>> >>
        ELSE ChunkLoop(start, end, chunk_months * 30, <<>>)

\* MarketDataReader._chunk_date_range
_chunk_date_range(start_date, end_date) ==
    LET start == Strptime(start_date)
        end == Strptime(end_date)
    IN  IF start = end THEN << <<start_date, end_date>> >>
        ELSE ChunkLoop(start, end, chunk_months * 30 - 1, <<>>)

\* The index_component filter of an indicator; "" when the query has none.
IndexComponent(indicator) ==
    CASE indicator = "000300" -> "100"
      [] indicator = "000905" -> "010"
      [] indicator = "000852" -> "001"
      [] OTHER -> ""

\* The query of _get_chunk_data, applied to one document.
ChunkQuery(doc, chunk_dates, query_params) ==
    /\ (query_params.symbols # <<>>) =>
           (\E k \in 1..Len(query_params.symbols) : doc.symbol = query_params.symbols[k])
    /\ IF chunk_dates[1] = chunk_dates[2] THEN doc.date = chunk_dates[1]
       ELSE doc.date >= chunk_dates[1] /\ doc.date <= chunk_dates[2]
    /\ (IndexComponent(query_params.indicator) # "") =>
           doc.index_component = IndexComponent(query_params.indicator)
    /\ (~query_params.st) => ~doc.st_name

\* A chunk read whose range query leaves out the chunk's last day.
GetChunkDataOpenEnd(chunk_dates, query_params, collection) ==
    LET Hit(doc) == /\ ChunkQuery(doc, chunk_dates, query_params)
                    /\ (chunk_dates[1] # chunk_dates[2]) => doc.date < chunk_dates[2]
        rows == SelectSeq(collection, Hit)
    IN  IF rows = <<>> THEN NoneDF ELSE DF(rows)

\* MarketDataReader._get_chunk_data for type 'stock' and fields = []: the
\* documents of the collection the query finds, None when there are none.
_get_chunk_data(chunk_dates, query_params, collection) ==
    LET Hit(doc) == ChunkQuery(doc, chunk_dates, query_params)
        rows == SelectSeq(collection, Hit)
    IN  IF rows = <<>> THEN NoneDF ELSE DF(rows)

\* pd.concat(dfs, ignore_index=True)
RECURSIVE Concat(_)
Concat(dfs) == IF dfs = <<>> THEN <<>> ELSE Head(dfs) \o Concat(Tail(dfs))

\* The rows of a table as a set.
Rows(df) == {df.rows[k] : k \in 1..Len(df.rows)}


\* The stock_market documents of the reader's store: days around the ends
\* of the 90-day chunks that start at 20230101.
MarketDocs ==
    << [symbol |-> "A", date |-> 20230101, st_name |-> FALSE, index_component |-> "100"],
       [symbol |-> "B", date |-> 20230331, st_name |-> TRUE,  index_component |-> "100"],
       [symbol |-> "A", date |-> 20230401, st_name |-> FALSE, index_component |-> "010"],
       [symbol |-> "B", date |-> 20230405, st_name |-> FALSE, index_component |-> "100"],
       [symbol |-> "A", date |-> 20230629, st_name |-> FALSE, index_component |-> "100"],
       [symbol |-> "A", date |-> 20241231, st_name |-> FALSE, index_component |-> "100"] >>

\* The date ranges asked for: one day, 90, 91 and 95 days, a range without
\* documents, a range that ends before it starts, a missing date.
ReadRanges ==
    { <<20230101, 20230101>>, <<20230101, 20230331>>, <<20230101, 20230401>>,
      <<20230101, 20230405>>, <<20230330, 20230629>>, <<20230702, 20230705>>,
      <<20230401, 20230101>>, <<None, 20230101>>, <<20230101, None>> }

\* Two years: more chunks than the pool has workers.
LongRange == <<20230401, 20250401>>

\* The symbols, indicator and st arguments asked for (fields is left at its
\* default); <<"None">> stands for symbols=None.
ReadParams ==
    { [symbols |-> s, indicator |-> i, st |-> t] :
        s \in {<<"None">>, <<"A">>}, i \in {"000985", "000300"}, t \in BOOLEAN }

\* symbols=None, indicator="000985", st=True
DefaultParams == [symbols |-> <<"None">>, indicator |-> "000985", st |-> TRUE]

\* The calls made, each with the store in reach or out of reach: every range
\* with every argument, the long one with the defaults and the store in reach.
ReadCalls ==
    {<<p, r, up>> : p \in ReadParams, r \in ReadRanges, up \in BOOLEAN}
        \cup {<<DefaultParams, LongRange, TRUE>>}

\* get_all_symbols: collection.distinct("symbol")
get_all_symbols(collection) ==
    LET syms == {collection[k].symbol : k \in 1..Len(collection)}
        F[k \in 0..Len(collection)] ==
            IF k = 0 THEN <<>>
            ELSE IF \E j \in 1..(k - 1) : collection[j].symbol = collection[k].symbol
                 THEN F[k - 1] ELSE Append(F[k - 1], collection[k].symbol)
    IN  F[Len(collection)]

\* The query parameters get_market_data prepares (lines 170-186).
QueryParams(params, collection) ==
    [symbols |-> IF params.symbols = <<"None">> THEN get_all_symbols(collection)
                 ELSE params.symbols,
     indicator |-> params.indicator, st |-> params.st]

\* get_market_data as a function of its arguments and the store: the rows
\* of the merged table, as a set (empty for None).
ReadRange(params, start_date, end_date, collection) ==
    IF start_date = None \/ end_date = None THEN {}
    ELSE LET date_chunks == _chunk_date_range(start_date, end_date)
             qp == QueryParams(params, collection)
         IN  UNION {Rows(_get_chunk_data(date_chunks[k], qp, collection)) :
                        k \in 1..Len(date_chunks)}

ReaderIdleState(collection) ==
    [pc |-> "idle", stock_market |-> collection, params |-> <<>>,
     start_date |-> None, end_date |-> None, date_chunks |-> <<>>,
     store_up |-> TRUE, futures |-> <<>>, taken |-> {}, dfs |-> <<>>,
     result |-> NoneDF, peak |-> 0]

readerFrame == <<syncVars, store, last_write, gateway>>

RunningChunks(futures) == {k \in 1..Len(futures) : futures[k].state = "running"}

\* get_market_data up to the submission of the chunk reads (lines 162-198).
RD_Call(params, start_date, end_date, store_up) ==
    /\ reader.pc \in {"idle", "returned", "raised"}
    /\ IF start_date = None \/ end_date = None
       THEN reader' = [ReaderIdleState(reader.stock_market) EXCEPT
                          !.pc = "returned", !.params = params,
                          !.start_date = start_date, !.end_date = end_date]
       ELSE LET date_chunks == _chunk_date_range(start_date, end_date)
            IN  reader' = [ReaderIdleState(reader.stock_market) EXCEPT
                              !.pc = "pool", !.params = params, !.store_up = store_up,
                              !.start_date = start_date, !.end_date = end_date,
                              !.date_chunks = date_chunks,
                              !.futures = [k \in 1..Len(date_chunks) |->
                                              [state |-> "queued", result |-> NoneDF]]]
    /\ UNCHANGED readerFrame

\* A free worker of the pool takes the next queued chunk read.
RD_Start(k) ==
    /\ reader.pc \in {"pool", "raising"}
    /\ reader.futures[k].state = "queued"
    /\ \A j \in 1..(k - 1) : reader.futures[j].state # "queued"
    /\ Cardinality(RunningChunks(reader.futures)) < reader_max_workers
    /\ reader' = [reader EXCEPT
                     !.futures[k].state = "running",
                     !.peak = IF Cardinality(RunningChunks(reader.futures)) + 1 > @
                              THEN Cardinality(RunningChunks(reader.futures)) + 1 ELSE @]
    /\ UNCHANGED readerFrame

\* _get_chunk_data of chunk k returns, or raises while the store is out of
\* reach.
RD_Finish(k) ==
    /\ reader.pc \in {"pool", "raising"}
    /\ reader.futures[k].state = "running"
    /\ IF reader.store_up
       THEN reader' = [reader EXCEPT
                          !.futures[k].state = "done",
                          !.futures[k].result =
                              _get_chunk_data(reader.date_chunks[k],
                                              QueryParams(reader.params, reader.stock_market),
                                              reader.stock_market)]
       ELSE reader' = [reader EXCEPT !.futures[k].state = "failed"]
    /\ UNCHANGED readerFrame

\* A step of the as_completed loop that collects every finished chunk read,
\* the empty ones as well.
RD_TakeAll(k) ==
    /\ reader.pc = "pool"
    /\ k \notin reader.taken
    /\ reader.futures[k].state \in {"done", "failed"}
    /\ IF reader.futures[k].state = "failed"
       THEN reader' = [reader EXCEPT !.pc = "raising", !.taken = @ \cup {k}]
       ELSE reader' = [reader EXCEPT
                          !.taken = @ \cup {k},
                          !.dfs = Append(@, reader.futures[k].result.rows)]
    /\ UNCHANGED readerFrame

\* A step of the as_completed loop (lines 200-203): future.result() of a
\* finished chunk read, appended when it is a non-empty table; the read's
\* exception leaves the loop.
RD_Take(k) ==
    /\ reader.pc = "pool"
    /\ k \notin reader.taken
    /\ reader.futures[k].state \in {"done", "failed"}
    /\ IF reader.futures[k].state = "failed"
       THEN reader' = [reader EXCEPT !.pc = "raising", !.taken = @ \cup {k}]
       ELSE reader' = [reader EXCEPT
                          !.taken = @ \cup {k},
                          !.dfs = IF ~reader.futures[k].result.is_none
                                     /\ reader.futures[k].result.rows # <<>>
                                  THEN Append(@, reader.futures[k].result.rows)
                                  ELSE @]
    /\ UNCHANGED readerFrame

\* The end of the with block and of get_market_data (lines 205-215).
RD_Return ==
    /\ reader.pc = "pool"
    /\ reader.taken = 1..Len(reader.futures)
    /\ reader' = [reader EXCEPT
                     !.pc = "returned",
                     !.result = IF reader.dfs = <<>> THEN NoneDF
                                ELSE DF(Concat(reader.dfs))]
    /\ UNCHANGED readerFrame

\* The exception of a chunk read leaves get_market_data once the pool's
\* shutdown has waited for every chunk read.
RD_Raise ==
    /\ reader.pc = "raising"
    /\ \A k \in 1..Len(reader.futures) : reader.futures[k].state \in {"done", "failed"}
    /\ reader' = [reader EXCEPT !.pc = "raised"]
    /\ UNCHANGED readerFrame

InitReader ==
    /\ SyncInit /\ StoreIdle /\ GatewayIdle /\ active = "dividend"
    /\ reader = ReaderIdleState(MarketDocs)

NextReader ==
    \/ \E c \in ReadCalls : RD_Call(c[1], c[2][1], c[2][2], c[3])
    \/ \E k \in 1..Len(reader.futures) : RD_Start(k) \/ RD_Finish(k) \/ RD_Take(k)
    \/ RD_Return
    \/ RD_Raise

SpecReader == InitReader /\ [][NextReader]_vars


\* The call has both of its dates.
ReaderHasDates == reader.start_date # None /\ reader.end_date # None

\* The call has just split its range and submitted the chunk reads.
ReaderSubmitted ==
    /\ reader.pc = "pool"
    /\ \A k \in 1..Len(reader.futures) : reader.futures[k].state = "queued"

(***************************************************************************)
(* C11.  For startDate < endDate the chunks of _chunk_date_range are       *)
(* consecutive, non-overlapping and cover [startDate, endDate] exactly:    *)
(* the first starts at startDate, each next one starts one day after the   *)
(* previous one's end, every chunk spans at most 90 days, the last ends at *)
(* endDate, and a 95-day range yields exactly 2 chunks; for startDate =    *)
(* endDate the result is the single chunk (startDate, endDate).            *)
(***************************************************************************)
C11_ChunksCoverRange ==
    (ReaderSubmitted /\ ReaderHasDates) =>
        LET ch == reader.date_chunks
            n == Len(ch)
        IN  /\ (reader.start_date = reader.end_date) =>
                   ch = << <<reader.start_date, reader.end_date>> >>
            /\ (reader.start_date < reader.end_date) =>
                   /\ n >= 1
                   /\ ch[1][1] = reader.start_date
                   /\ ch[n][2] = reader.end_date
                   /\ \A k \in 1..n :
                          /\ ch[k][1] <= ch[k][2]
                          /\ DaysBetween(ch[k][2], ch[k][1]) + 1 <= 90
                   /\ \A k \in 1..(n - 1) : ch[k + 1][1] = AddDays(ch[k][2], 1)
                   /\ (DaysBetween(reader.end_date, reader.start_date) + 1 = 95) => n = 2

\* A 95-day range has been split in two.
C11_Witness ==
    /\ ReaderSubmitted
    /\ ReaderHasDates
    /\ DaysBetween(reader.end_date, reader.start_date) + 1 = 95
    /\ Len(reader.date_chunks) = 2

\* The ends of the first sub-ranges of the partitions compared.
CutDates == {20230101, 20230330, 20230331, 20230401, 20230404, 20230629, 20240101}

\* The partitions of [start_date, end_date] into one, two or three
\* consecutive sub-ranges that end at cut dates.
Partitions(start_date, end_date) ==
    LET cuts == {c \in CutDates : start_date <= c /\ c < end_date}
    IN  {<< <<start_date, end_date>> >>}
        \cup {<< <<start_date, c>>, <<AddDays(c, 1), end_date>> >> : c \in cuts}
        \cup {<< <<start_date, c[1]>>, <<AddDays(c[1], 1), c[2]>>,
                 <<AddDays(c[2], 1), end_date>> >> :
                  c \in {d \in cuts \X cuts : d[1] < d[2]}}

(***************************************************************************)
(* C12.  The set of records get_market_data returns over a date range is   *)
(* the union of the sets it returns over the sub-ranges of any partition   *)
(* of the range into consecutive sub-ranges, with the same symbols,        *)
(* indicator and st arguments and the store unchanged.                     *)
(***************************************************************************)
C12_ReadEqualsUnionOfParts ==
    (reader.pc = "returned" /\ ReaderHasDates /\ reader.start_date <= reader.end_date) =>
        \A part \in Partitions(reader.start_date, reader.end_date) :
            Rows(reader.result) =
                UNION {ReadRange(reader.params, part[k][1], part[k][2], reader.stock_market) :
                           k \in 1..Len(part)}

\* A read over two chunks has returned records of both, and the range has a
\* partition into three sub-ranges.
C12_Witness ==
    /\ reader.pc = "returned"
    /\ ReaderHasDates
    /\ Len(reader.date_chunks) = 2
    /\ Len(reader.dfs) = 2
    /\ \E part \in Partitions(reader.start_date, reader.end_date) : Len(part) = 3

(***************************************************************************)
(* C13.  get_market_data submits exactly one store-read task per chunk to  *)
(* a pool in which at most 8 tasks run at a time, returns only after every *)
(* chunk task has finished, includes each non-empty chunk result exactly   *)
(* once in the merged table, and returns None exactly when no chunk        *)
(* yielded data.                                                           *)
(***************************************************************************)
C13_OneTaskPerChunk ==
    LET yielded == {k \in 1..Len(reader.futures) : ~reader.futures[k].result.is_none}
    IN  /\ Len(reader.futures) = Len(reader.date_chunks)
        /\ Cardinality(RunningChunks(reader.futures)) <= 8
        /\ (reader.pc = "returned") =>
               /\ \A k \in 1..Len(reader.futures) : reader.futures[k].state = "done"
               /\ Len(reader.dfs) = Cardinality(yielded)
               /\ \A k \in yielded :
                      Cardinality({j \in 1..Len(reader.dfs) :
                                       reader.dfs[j] = reader.futures[k].result.rows}) = 1
               /\ reader.result.rows = Concat(reader.dfs)
               /\ reader.result.is_none <=> (yielded = {})

\* A read of more chunks than workers has returned, after all the workers
\* were busy at once, with the records of several chunks.
C13_Witness ==
    /\ reader.pc = "returned"
    /\ Len(reader.futures) > reader_max_workers
    /\ reader.peak = reader_max_workers
    /\ Len(reader.dfs) >= 2
    /\ \E k \in 1..Len(reader.futures) : reader.futures[k].result.is_none


(***************************************************************************)
(* C14.  In an incremental name-change run in which no sub-window fetch    *)
(* fails, the month-sized sub-windows queried are consecutive and          *)
(* non-overlapping and their union is exactly [start_date, end_date]:      *)
(* every calendar day of the window lies in exactly one queried            *)
(* sub-window.                                                             *)
(***************************************************************************)
C14_SubWindowsCoverWindow ==
    (/\ active = "namechange"
     /\ pc = "nc_fetched"
     /\ ~run_log.full
     /\ ~run_log.window_failed
     /\ loc.start_date <= loc.end_date) =>
        LET w == run_log.windows
            n == Len(w)
        IN  /\ n >= 1
            /\ w[1][1] = loc.start_date
            /\ w[n][2] = loc.end_date
            /\ \A k \in 1..n : w[k][1] <= w[k][2]
            /\ \A k \in 1..(n - 1) : w[k + 1][1] = AddDays(w[k][2], 1)


\* The documents of the whole provider history of a symbol, as the full
\* mode stores it.
HistoryDocs(ts_code) == {NamechangeDoc(r) : r \in DropDuplicates(NamechangeOf(ts_code))}

(***************************************************************************)
(* C15.  Whenever full mode skips a symbol because the store already holds *)
(* records for it, the store already holds that symbol's entire provider   *)
(* history; so after a full-mode run that completes successfully (no call  *)
(* of it failed), the whole provider history of every known symbol is in   *)
(* the store, also for symbols whose only records came from earlier        *)
(* incremental runs.                                                       *)
(***************************************************************************)
C15_SkippedSymbolIsComplete ==
    (active = "namechange" /\ run_log.full) =>
        /\ \A s \in run_log.skipped : HistoryDocs(s) \subseteq stock_namechange
        /\ (/\ pc = "done"
            /\ progress["namechange"].status = "completed"
            /\ ~run_log.fault) =>
               \A k \in 1..Len(StockList) : HistoryDocs(StockList[k]) \subseteq stock_namechange

(***************************************************************************)
(* C16.  In full mode the provider is asked for a symbol's history if and  *)
(* only if the store holds no record for that symbol at the moment the     *)
(* symbol is processed; a full-mode run over a store that already has      *)
(* records for every known symbol makes no per-symbol provider call and    *)
(* writes nothing.                                                         *)
(***************************************************************************)
C16_AskedIffAbsent ==
    (active = "namechange" /\ run_log.full) =>
        /\ run_log.asked = run_log.absent
        /\ run_log.covered0 =>
               /\ run_log.asked = {}
               /\ run_log.inserted = 0
               /\ sync_records = run_log.ckpt0


\* The pages the provider returns to the requests of sub-query q, in order.
PagesOf(q, count) == [k \in 1..count |-> DividendPage(q.rows, q.total, k - 1)]

\* The last Len(tail) elements of seq are tail.
EndsWith(seq, tail) ==
    /\ Len(tail) <= Len(seq)
    /\ SubSeq(seq, Len(seq) - Len(tail) + 1, Len(seq)) = tail

(***************************************************************************)
(* C17.  For each sub-query the pagination loop requests pages at offsets  *)
(* 0, L, 2L, ... (L = page size 2000) in increasing order, stops after the *)
(* first page that holds fewer than L records, and the records handed on   *)
(* are exactly the concatenation of all pages fetched up to and including  *)
(* that page.                                                              *)
(***************************************************************************)
C17_PagesInOrderUntilShort ==
    (active = "dividend") =>
        LET q == run_log.last_query
            m == Len(q.requested)
        IN  /\ \A k \in 1..m : q.requested[k] = (k - 1) * limit
            /\ \A k \in 1..(m - 1) : DividendPage(q.rows, q.total, k - 1).n = limit
            /\ (q.ended = "short") =>
                   /\ DividendPage(q.rows, q.total, m - 1).n < limit
                   /\ q.appended = SelectSeq(PagesOf(q, m), LAMBDA df : df.n > 0)
                   /\ (pc \in {"dv_next_day", "dv_symbol_store"}) =>
                          EndsWith(loc.dfs, PageRows(q.appended))

\* A sub-query has ended on its third page, a short one, with the records
\* of the three pages handed on.
C17_Witness ==
    /\ active = "dividend"
    /\ pc = "dv_next_day"
    /\ run_log.last_query.ended = "short"
    /\ Len(run_log.last_query.requested) = 3
    /\ Len(run_log.last_query.appended) = 3
    /\ loc.dfs # <<>>

(***************************************************************************)
(* C18.  If the page-count safety ceiling (99 pages) is reached with every *)
(* page full, the fetch ends with a fatal "unexpectedly large result"      *)
(* error; the pages fetched so far are not passed on to normalization and  *)
(* writing as if they were the complete result.                            *)
(***************************************************************************)
C18_CeilingIsFatal ==
    (active = "dividend" /\ pc = "done" /\ run_log.ceiling) =>
        /\ progress["dividend"].status = "error"
        /\ ~run_log.saved

(***************************************************************************)
(* C19.  When a page fetch raises, pagination for that sub-query stops     *)
(* there, the pages already fetched for it are kept, the sweep continues   *)
(* with the next date, and the run as a whole does not end in error        *)
(* because of it.                                                          *)
(***************************************************************************)
C19_PageFailureIsLocal ==
    (active = "dividend") =>
        LET q == run_log.last_query
            m == Len(q.requested)
        IN  /\ (q.ended = "raised") =>
                   /\ q.appended = PagesOf(q, m - 1)
                   /\ (pc # "done") =>
                          /\ pc \in {"dv_next_day", "dv_day", "dv_page", "dv_symbol_store"}
                          /\ progress["dividend"].status = "running"
                   /\ (pc \in {"dv_next_day", "dv_symbol_store"}) =>
                          EndsWith(loc.dfs, PageRows(q.appended))
            /\ (/\ pc = "done"
                /\ run_log.page_raised
                /\ ~run_log.write_failed
                /\ ~run_log.unavailable) => progress["dividend"].status = "completed"

\* A run in which the second page of a date raised has gone on to the next
\* date and has ended completed, the first page's records written.
C19_Witness ==
    /\ active = "dividend"
    /\ pc = "done"
    /\ run_log.page_raised
    /\ run_log.last_query.ended = "short"
    /\ progress["dividend"].status = "completed"
    /\ Len(run_log.written) >= 2

(***************************************************************************)
(* C20.  The record set the normalizer hands to the writer contains no two *)
(* records with the same writer composite key: for dividends, no two       *)
(* records with the same (symbol, ex_div_date) reach the bulk write, in    *)
(* the date-range path and in the per-symbol path alike.                   *)
(***************************************************************************)
C20_NoDuplicateKeyReachesWriter ==
    (active = "dividend") =>
        DistinctKeys(run_log.written, KeyFields("stock_dividends"))


\* The rows the provider returned to the sub-window queries of the run.
FetchedRows ==
    UNION {QueryNamechange(run_log.windows[k][1], run_log.windows[k][2]) :
              k \in 1..Len(run_log.windows)}

\* The positions of frame data that hold a row of r's (ts_code, start_date).
KeptAt(data, r) ==
    {k \in 1..Len(data) :
        data[k].ts_code = r.ts_code /\ data[k].start_date = r.start_date}

(***************************************************************************)
(* C21.  When several fetched name-change records share (ts_code,          *)
(* start_date), exactly one of them is kept, it is the one with the        *)
(* earliest end_date, and repeated runs on the same input in the same      *)
(* order keep the same record.                                             *)
(***************************************************************************)
C21_OneRowPerKeyEarliestEnd ==
    (active = "namechange") =>
        /\ (pc = "nc_fetched" /\ ~run_log.full) =>
               /\ \A r \in FetchedRows :
                      /\ Cardinality(KeptAt(loc.data, r)) = 1
                      /\ \A k \in KeptAt(loc.data, r) :
                             /\ loc.data[k] \in FetchedRows
                             /\ \A q \in SameKeyRows(FetchedRows, r) :
                                    EndDateKey(loc.data[k]) <= EndDateKey(q)
               /\ \A k \in 1..Len(loc.data) : loc.data[k] \in FetchedRows
               /\ (Len(run_log.windows) = 1) =>
                      loc.data = SortByEndDate(DropDuplicates(FetchedRows))
        /\ (pc = "nc_batch_save") =>
               \A r \in loc.batch_data :
                   /\ SameKeyRows(loc.batch_data, r) = {r}
                   /\ r \in NamechangeOf(r.ts_code)
                   /\ \A q \in SameKeyRows(NamechangeOf(r.ts_code), r) :
                          EndDateKey(r) <= EndDateKey(q)

\* The fetch of a window has returned three rows of (B, 20230316), two of
\* them with the same end_date; the one kept has the end_date 20230601.
C21_Witness ==
    /\ active = "namechange"
    /\ pc = "nc_fetched"
    /\ ~run_log.full
    /\ Cardinality({r \in FetchedRows : r.ts_code = "B" /\ r.start_date = 20230316}) = 3
    /\ \E k \in 1..Len(loc.data) :
           loc.data[k].ts_code = "B" /\ loc.data[k].end_date = 20230601


C23_UniqueIndexOnWriterKey ==
    (/\ last_write.records # <<>>
     /\ store.name \in {"stock_dividends", "index_market", "adj_factor", "factor_base"})
        => UniqueIndex(store.name) = KeyFields(store.name)


(***************************************************************************)
(* C24.  When a bulk write fails part-way, the records written before the  *)
(* failure remain in the store and the failure is reported to the caller   *)
(* of the sync operation rather than only logged and swallowed, for every  *)
(* category.                                                               *)
(***************************************************************************)
C24_WriteFailureIsReported ==
    (pc = "done" /\ run_log.write_failed) => progress[active].status = "error"


\* An incremental name-change run has ended completed and without a fault
\* over the sub-windows of the run before it, itself such a run.
RerunOfSyncedWindow ==
    /\ active = "namechange"
    /\ pc = "done"
    /\ ~run_log.full
    /\ ~run_log.fault
    /\ progress["namechange"].status = "completed"
    /\ run_log.prev_windows # <<>>
    /\ run_log.windows = run_log.prev_windows

(***************************************************************************)
(* C25.  Re-running an incremental name-change sync over a window that was *)
(* already synced, with the provider returning the same records, inserts   *)
(* no record: the stock_namechange collection is the same after the second *)
(* run as after the first.                                                 *)
(***************************************************************************)
C25_RerunInsertsNothing ==
    RerunOfSyncedWindow =>
        /\ run_log.inserted = 0
        /\ stock_namechange = run_log.coll0

\* The second run over a window whose rows the first run had stored.
C25_Witness ==
    /\ RerunOfSyncedWindow
    /\ FetchedRows # {}
    /\ \A r \in DropDuplicates(FetchedRows) : NamechangeDoc(r) \in run_log.coll0
    /\ run_log.saved



(***************************************************************************)
(* SpecClient: utils/tushare_client.py and the constructors that obtain a  *)
(* provider session.  The routes build their service inside the background *)
(* task, so that constructions of several categories interleave.           *)
(***************************************************************************)

\* The components that obtain a session: the dividend and index-price
\* cleaners call init_tushare_client and get_tushare_client; the name-change
\* service (in sync_namechange_data) and the adjustment-factor service (in
\* __init__) call ts.pro_api() themselves.
Components == {"dividend", "index_market", "namechange", "adj_factor"}

SharedClient == {"dividend", "index_market"}

\* The most sessions created between two resets in a behaviour.
MaxSessions == 3

\* A component that is not built, or whose construction has not begun.
NoComponent == [pc |-> "none", pro |-> None]

\* The module globals (_tushare_client None, _is_initialized False), the
\* sessions created since the last reset, whether an init_tushare_client
\* call with a configured TS_TOKEN has succeeded since then, and the
\* components.
GatewayState(comps) ==
    [_tushare_client |-> None, _is_initialized |-> FALSE, created |-> 0,
     token_init |-> FALSE, comps |-> comps]

clientFrame == <<syncVars, store, last_write, reader>>

\* A cleaner or service is constructed (the name-change service: its sync
\* begins), or get_tushare_client is called by itself.
GW_New(c) ==
    /\ gateway.comps[c].pc \in {"none", "ready", "failed", "no_client"}
    /\ \E entry \in IF c \in SharedClient THEN {"init", "get"} ELSE {"direct"} :
          gateway' = [gateway EXCEPT !.comps[c] = [pc |-> entry, pro |-> None]]
    /\ UNCHANGED clientFrame

\* init_tushare_client, line 38: the client is reused when there is one
GW_InitCheck(c) ==
    /\ gateway.comps[c].pc = "init"
    /\ gateway' = [gateway EXCEPT
                      !.comps[c].pc =
                          IF gateway._is_initialized /\ gateway._tushare_client # None
                          THEN "get" ELSE "create"]
    /\ UNCHANGED clientFrame

\* init_tushare_client, lines 42-59: without a TS_TOKEN in the config
\* ValueError is raised before anything is assigned; with one, ts.pro_api()
\* and the two globals, or the exception of ts.set_token / ts.pro_api
GW_InitCreate(c) ==
    /\ gateway.comps[c].pc = "create"
    /\ \E ts_token \in BOOLEAN :
          \/ /\ ts_token
             /\ gateway.created < MaxSessions
             /\ gateway' = [gateway EXCEPT
                               !._tushare_client = gateway.created + 1,
                               !._is_initialized = TRUE,
                               !.created = @ + 1,
                               !.token_init = TRUE,
                               !.comps[c].pc = "get"]
          \/ gateway' = [gateway EXCEPT !.comps[c].pc = "failed"]
    /\ UNCHANGED clientFrame

\* A get_tushare_client that returns the global whatever it holds.
GW_GetUnchecked(c) ==
    /\ gateway.comps[c].pc = "get"
    /\ gateway' = [gateway EXCEPT
                      !.comps[c] = [pc |-> "ready", pro |-> gateway._tushare_client]]
    /\ UNCHANGED clientFrame

\* get_tushare_client: RuntimeError without a client
GW_Get(c) ==
    /\ gateway.comps[c].pc = "get"
    /\ IF ~gateway._is_initialized \/ gateway._tushare_client = None
       THEN gateway' = [gateway EXCEPT !.comps[c].pc = "no_client"]
       ELSE gateway' = [gateway EXCEPT
                           !.comps[c] = [pc |-> "ready", pro |-> gateway._tushare_client]]
    /\ UNCHANGED clientFrame

\* self.pro = ts.pro_api() of the name-change and adjustment-factor services
GW_Direct(c) ==
    /\ gateway.comps[c].pc = "direct"
    /\ \/ /\ gateway.created < MaxSessions
          /\ gateway' = [gateway EXCEPT
                            !.created = @ + 1,
                            !.comps[c] = [pc |-> "ready", pro |-> gateway.created + 1]]
       \/ gateway' = [gateway EXCEPT !.comps[c].pc = "failed"]
    /\ UNCHANGED clientFrame

\* reset_tushare_client: the globals are cleared.  The components built
\* before the reset are dropped from the picture; a construction under way
\* goes on.
GW_Reset ==
    /\ gateway' = [gateway EXCEPT
                      !._tushare_client = None,
                      !._is_initialized = FALSE,
                      !.created = 0,
                      !.token_init = FALSE,
                      !.comps = [c \in Components |->
                                    IF gateway.comps[c].pc \in {"ready", "failed", "no_client"}
                                    THEN NoComponent ELSE gateway.comps[c]]]
    /\ gateway' # gateway
    /\ UNCHANGED clientFrame

InitClient ==
    /\ SyncInit /\ StoreIdle /\ ReaderIdle /\ active = "dividend"
    /\ gateway = GatewayState([c \in Components |-> NoComponent])

NextClient ==
    \/ \E c \in Components :
          GW_New(c) \/ GW_InitCheck(c) \/ GW_InitCreate(c) \/ GW_Get(c) \/ GW_Direct(c)
    \/ GW_Reset

SpecClient == InitClient /\ [][NextClient]_vars

(***************************************************************************)
(* C26.  Across any interleaving of cleaner and service constructions, at  *)
(* most one provider session (pro_api instance) is created in the process  *)
(* between resets, and every component's provider calls go through that    *)
(* one instance.                                                           *)
(***************************************************************************)
C26_SingleProviderSession ==
    /\ gateway.created <= 1
    /\ \A c \in Components :
           (gateway.comps[c].pc = "ready") => gateway.comps[c].pro = gateway._tushare_client



(***************************************************************************)
(* SpecRate: the provider calls of runs of several categories at the same  *)
(* time, and the pauses the code takes after a call.  Time is counted in   *)
(* units of 25 ms.  call_tushare_api calls the function it is given and    *)
(* takes no lock, and no run calls the provider through it.                *)
(***************************************************************************)

\* time.sleep(0.15) after a full page of pro.dividend
page_pause == 6

\* time.sleep(0.125) after the last page of a date
date_pause == 5

\* time.sleep(0.5) after pro.namechange of one symbol (full mode)
stock_pause == 20

\* The runs that call the provider.
Callers == {"dividend", "namechange", "index_market"}

\* The pause that follows a call of caller c: the two of the dividend sweep;
\* none between the sub-window queries of the incremental name-change sync
\* (lines 276-318), stock_pause in its full mode; none between the per-index
\* queries of the index-price history (lines 156-208).
Pauses(c) ==
    CASE c = "dividend" -> {page_pause, date_pause}
      [] c = "namechange" -> {0, stock_pause}
      [] c = "index_market" -> {0}

\* The shortest interval between two call starts that counts as kept: the
\* shortest pause the code takes after a call.
min_interval == date_pause

\* The provider was last called `since` units ago (counted up to
\* min_interval); calls counts the call starts up to two; gap is the
\* shortest interval seen between two consecutive call starts.
RateState ==
    [since |-> 0, calls |-> 0, gap |-> min_interval,
     callers |-> [c \in Callers |-> [pc |-> "idle", wait |-> 0]]]

\* Caller c starts a provider call.
RT_Call(c) ==
    /\ gateway.callers[c].pc = "idle"
    /\ gateway' = [gateway EXCEPT
                      !.gap = IF gateway.calls >= 1 /\ gateway.since < @
                              THEN gateway.since ELSE @,
                      !.since = 0,
                      !.calls = IF @ < 2 THEN @ + 1 ELSE @,
                      !.callers[c].pc = "calling"]
    /\ UNCHANGED clientFrame

\* The call returns (or raises) and the caller takes its pause.
RT_Return(c) ==
    /\ gateway.callers[c].pc = "calling"
    /\ \E pause \in Pauses(c) :
          gateway' = [gateway EXCEPT
                         !.callers[c] = [pc |-> IF pause = 0 THEN "idle" ELSE "sleeping",
                                         wait |-> pause]]
    /\ UNCHANGED clientFrame

\* One unit of time passes: the sleepers come nearer to waking.
RT_Elapse ==
    /\ gateway' = [gateway EXCEPT
                      !.since = IF @ < min_interval THEN @ + 1 ELSE @,
                      !.callers = [c \in Callers |->
                                      IF gateway.callers[c].pc = "sleeping"
                                      THEN IF gateway.callers[c].wait = 1
                                           THEN [pc |-> "idle", wait |-> 0]
                                           ELSE [pc |-> "sleeping",
                                                 wait |-> gateway.callers[c].wait - 1]
                                      ELSE gateway.callers[c]]]
    /\ gateway' # gateway
    /\ UNCHANGED clientFrame

InitRate ==
    /\ SyncInit /\ StoreIdle /\ ReaderIdle /\ active = "dividend"
    /\ gateway = RateState

NextRate ==
    \/ \E c \in Callers : RT_Call(c) \/ RT_Return(c)
    \/ RT_Elapse

SpecRate == InitRate /\ [][NextRate]_vars

(***************************************************************************)
(* C27.  No two provider calls start less than the configured minimum      *)
(* inter-call interval apart, including calls issued by different          *)
(* categories running at the same time and consecutive sub-window or       *)
(* per-index calls within one run.                                         *)
(***************************************************************************)
C27_CallsKeepMinimumInterval ==
    (gateway.calls >= 2) => gateway.gap >= min_interval


\* The effective window of the name-change sync has been resolved.
WindowResolved == active = "namechange" /\ pc = "nc_p20"

\* The window but for the start of an incremental run without start_date.
WindowButIncrementalStart ==
    /\ loc.end_date = (IF args.end_date = None THEN now ELSE args.end_date)
    /\ (args.start_date # None) => loc.start_date = args.start_date
    /\ (args.start_date = None /\ args.force_update) => loc.start_date = 19900101
    /\ (args.start_date = None /\ ~args.force_update /\ sync_records = None) =>
           DaysBetween(now, loc.start_date) = 90

ProgressRoutes == {"namechange", "index_market"}

\* Seconds the clock may reach.
MaxClock == 4

\* current_progress as the route modules define it, of its keys those the
\* callback reads or the service writes.
current_progress ==
    [progress_percent |-> 0, status |-> "idle", current_task |-> "",
     start_time |-> None, estimated_completion |-> None, error_message |-> ""]

\* The updates a service passes to _update_progress: a percentage, a task
\* text, a status (error comes with its message), each present or not.
ProgressInfos ==
    { MergeProgress(MergeProgress(p, t), s) :
        p \in {<<>>} \cup { [progress_percent |-> v] : v \in {0, 50, 100} },
        t \in {<<>>, [current_task |-> "fetch"]},
        s \in {<<>>, [status |-> "completed"],
               [status |-> "error", error_message |-> "e"]} }

\* elapsed / (percent / 100) - elapsed added to the current time.
EstimatedCompletion(start, clock, percent) ==
    clock + (((clock - start) * 100) \div percent - (clock - start))

\* A callback that estimates from the record's percentage, whether or not
\* the update carries one.
ProgressCallbackEstimatesAlways(cur, info, clock) ==
    LET merged == MergeProgress(cur, info)
    IN  IF merged.progress_percent > 0 /\ merged.start_time # None
        THEN [merged EXCEPT !.estimated_completion =
                 EstimatedCompletion(merged.start_time, clock, merged.progress_percent)]
        ELSE merged

\* progress_callback: the given keys are written one by one; a positive
\* progress_percent in the update and a start_time in the record give a new
\* estimated_completion.
progress_callback(cur, info, clock) ==
    LET merged == MergeProgress(cur, info)
    IN  IF /\ "progress_percent" \in DOMAIN info
           /\ info.progress_percent > 0
           /\ merged.start_time # None
        THEN [merged EXCEPT !.estimated_completion =
                 EstimatedCompletion(merged.start_time, clock, info.progress_percent)]
        ELSE merged

progressFrame == <<now, active, pc, args, loc, sync_records, stock_namechange,
                   db, tasks, run_log, store, last_write, reader>>

\* The entry point resets the record and stamps start_time.
PG_Reset ==
    /\ progress' = [progress EXCEPT ![active] =
           MergeProgress(@, [progress_percent |-> 0, status |-> "running",
                             current_task |-> "init", start_time |-> gateway.clock,
                             estimated_completion |-> None, error_message |-> ""])]
    /\ gateway' = [gateway EXCEPT !.op = "reset", !.info = <<>>]
    /\ UNCHANGED progressFrame

\* The service of a started run reports progress.
PG_Callback(info) ==
    /\ gateway.op # "none"
    /\ progress' = [progress EXCEPT ![active] = progress_callback(@, info, gateway.clock)]
    /\ gateway' = [gateway EXCEPT !.op = "callback", !.info = info]
    /\ UNCHANGED progressFrame

\* run_with_error_handling / run_task: the task raised.
PG_Error ==
    /\ gateway.op # "none"
    /\ progress' = [progress EXCEPT ![active] =
           MergeProgress(@, [status |-> "error", error_message |-> "e",
                             current_task |-> "failed"])]
    /\ gateway' = [gateway EXCEPT !.op = "error", !.info = <<>>]
    /\ UNCHANGED progressFrame

\* A second passes.
PG_Tick ==
    /\ gateway.clock < MaxClock
    /\ gateway' = [gateway EXCEPT !.clock = @ + 1, !.op = IF @ = "none" THEN @ ELSE "tick",
                                  !.info = <<>>]
    /\ UNCHANGED <<progress, progressFrame>>

InitProgress ==
    /\ SyncIdle /\ StoreIdle /\ ReaderIdle
    /\ active \in ProgressRoutes
    /\ progress = [c \in Cats |-> current_progress]
    /\ gateway = [clock |-> 1, op |-> "none", info |-> <<>>]

NextProgress ==
    \/ PG_Reset
    \/ \E info \in ProgressInfos : PG_Callback(info)
    \/ PG_Error
    \/ PG_Tick

SpecProgress == InitProgress /\ [][NextProgress]_vars

(***************************************************************************)
(* C29.  A progress update overwrites only the keys it provides: every     *)
(* other key of the shared progress record keeps its previous value,       *)
(* except estimated_completion, which is recomputed only when the update   *)
(* carries progress_percent > 0.                                           *)
(***************************************************************************)
C29_UpdateWritesOnlyGivenKeys ==
    [][ gateway'.op = "callback" =>
          LET info == gateway'.info
              old  == progress[active]
              new  == progress'[active]
          IN  /\ DOMAIN new = DOMAIN old
              /\ \A k \in DOMAIN info : new[k] = info[k]
              /\ \A k \in DOMAIN old \ (DOMAIN info \cup {"estimated_completion"}) :
                     new[k] = old[k]
              /\ ("progress_percent" \notin DOMAIN info \/ info.progress_percent <= 0) =>
                     new.estimated_completion = old.estimated_completion
              /\ \A c \in Cats \ {active} : progress'[c] = progress[c] ]_vars

\* Two seconds into a run whose estimate was computed, an update without a
\* percentage has changed the task text and kept the estimate.
C29_Witness ==
    /\ gateway.op = "callback"
    /\ DOMAIN gateway.info = {"current_task"}
    /\ progress[active].current_task = "fetch"
    /\ progress[active].progress_percent = 50
    /\ progress[active].status = "running"
    /\ progress[active].start_time = 1
    /\ progress[active].estimated_completion = 3
    /\ gateway.clock = 3



\* An incremental name-change run has ended whose every sub-window query
\* returned, and returned no row.
EmptyNamechangeRun ==
    /\ active = "namechange"
    /\ pc = "done"
    /\ ~run_log.full
    /\ run_log.fetched
    /\ ~run_log.window_failed
    /\ FetchedRows = {}

\* A dividend sweep over a window of dates has ended, and the provider holds
\* no dividend announced in the window.
EmptyDividendRun ==
    /\ active = "dividend"
    /\ pc = "done"
    /\ run_log.windows # <<>>
    /\ \A k \in 1..Len(DividendData) :
           \/ DividendData[k].ann_date < run_log.windows[1][1]
           \/ DividendData[k].ann_date > run_log.windows[1][2]

(***************************************************************************)
(* C30.  When the provider returns no records for the whole requested      *)
(* window, the sync run does not raise, writes nothing to the store, and   *)
(* leaves the persisted checkpoint unchanged.                              *)
(***************************************************************************)
C30_EmptyWindowWritesNothing ==
    (EmptyNamechangeRun \/ EmptyDividendRun) =>
        /\ progress[active].status = "completed"
        /\ run_log.inserted = 0
        /\ run_log.written = <<>>
        /\ ~run_log.saved
        /\ ~run_log.ckpt_written
        /\ sync_records = run_log.ckpt0
        /\ EmptyNamechangeRun => stock_namechange = run_log.coll0

\* An incremental run from the checkpoint 20230520 to the same day has
\* queried the one sub-window 20230519..20230520 and got nothing.
C30_Witness ==
    /\ EmptyNamechangeRun
    /\ run_log.ckpt0 = 20230520
    /\ run_log.windows = <<<<20230519, 20230520>>>>
    /\ stock_namechange # {}

\* The daily dividend sweep of the 30 days before 20230520 found nothing.
C30_DividendWitness ==
    /\ EmptyDividendRun
    /\ run_log.windows = <<<<20230420, 20230520>>>>
    /\ progress["dividend"].status = "completed"



(***************************************************************************)
(* C31.  get_tushare_client never returns a client unless an               *)
(* init_tushare_client call with a configured TS_TOKEN has succeeded since *)
(* the last reset: initialising with a missing token raises and leaves the *)
(* gateway uninitialised, and get_tushare_client then raises RuntimeError  *)
(* instead of returning None.                                              *)
(***************************************************************************)
C31_NoClientWithoutTokenInit ==
    /\ \A c \in SharedClient :
           (gateway.comps[c].pc = "ready") =>
               /\ gateway.comps[c].pro # None
               /\ gateway.token_init
    /\ ~gateway.token_init =>
           /\ ~gateway._is_initialized
           /\ gateway._tushare_client = None
           /\ \A c \in SharedClient : gateway.comps[c].pc # "ready"

\* The dividend cleaner's initialisation has raised, nothing is initialised,
\* and the get_tushare_client of the index-price cleaner has raised.
C31_Witness ==
    /\ gateway.comps["dividend"].pc = "failed"
    /\ gateway.comps["index_market"].pc = "no_client"
    /\ ~gateway.token_init
    /\ ~gateway._is_initialized
    /\ gateway.created = 0



(***************************************************************************)
(* SpecBatchSize: the cursor batch size MarketDataReader._get_chunk_data   *)
(* computes from the requested fields.                                     *)
(***************************************************************************)

\* The most fields a call asks for.
MaxFields == 300

\* The fields arguments of get_market_data after its conversion to a list
\* (fields=None becomes []): lists of 0 to MaxFields names.
FieldLists == { [k \in 1..n |-> "close"] : n \in 0..MaxFields }

\* len(fields) * 20 if fields else 200
estimated_doc_size(fields) == IF fields # <<>> THEN Len(fields) * 20 ELSE 200

\* A batch size without the lower clamp.
TargetBatchSizeNoMinimum(fields) ==
    LET n == (10 * 1024 * 1024) \div estimated_doc_size(fields)
    IN  IF n < 10000 THEN n ELSE 10000

\* min(max(int(10 * 1024 * 1024 / estimated_doc_size), 2000), 10000)
target_batch_size(fields) ==
    LET n == (10 * 1024 * 1024) \div estimated_doc_size(fields)
        lower == IF n > 2000 THEN n ELSE 2000
    IN  IF lower < 10000 THEN lower ELSE 10000

batchFrame == <<syncVars, store, last_write, gateway>>

\* A chunk read is submitted with the fields of the call.
BS_Submit(fields) ==
    /\ reader.pc \in {"idle", "find"}
    /\ reader' = [pc |-> "chunk", fields |-> fields, batch_size |-> None]
    /\ UNCHANGED batchFrame

\* _get_chunk_data up to collection.find(...).batch_size(target_batch_size)
BS_Find ==
    /\ reader.pc = "chunk"
    /\ reader' = [reader EXCEPT !.pc = "find",
                                !.batch_size = target_batch_size(reader.fields)]
    /\ UNCHANGED batchFrame

InitBatchSize ==
    /\ SyncInit /\ StoreIdle /\ GatewayIdle /\ active = "dividend"
    /\ reader = [pc |-> "idle", fields |-> <<>>, batch_size |-> None]

NextBatchSize ==
    \/ \E fields \in FieldLists : BS_Submit(fields)
    \/ BS_Find

SpecBatchSize == InitBatchSize /\ [][NextBatchSize]_vars

(***************************************************************************)
(* C32.  The store cursor batch size computed for a chunk read equals      *)
(* 10 MiB divided by the estimated record size (20 bytes per requested     *)
(* field, 200 bytes when no field is requested), rounded down and clamped  *)
(* to [2000, 10000]; it lies in [2000, 10000] for any number of requested  *)
(* fields.                                                                 *)
(***************************************************************************)
C32_BatchSizeIsClampedQuotient ==
    (reader.pc = "find") =>
        LET size  == IF Len(reader.fields) = 0 THEN 200 ELSE 20 * Len(reader.fields)
            bytes == 10485760
            b     == reader.batch_size
        IN  /\ 2000 <= b /\ b <= 10000
            /\ (10000 * size <= bytes) => b = 10000
            /\ (bytes < 2000 * size) => b = 2000
            /\ (2000 * size <= bytes /\ bytes < 10000 * size) =>
                   b * size <= bytes /\ bytes < (b + 1) * size

\* A read of 100 fields: 10485760 / 2000 = 5242.88, batch size 5242.
C32_Witness ==
    /\ reader.pc = "find"
    /\ Len(reader.fields) = 100
    /\ reader.batch_size = 5242



\* A step of the incremental month sweep that leaves the sweep in the loop
\* with another sub-window start.
SweepAdvances ==
    /\ active = "namechange"
    /\ pc = "nc_month" /\ pc' = "nc_month"
    /\ loc'.current_start # loc.current_start

\* Such a step after a sub-window whose query raised: no sub-window is added
\* to those that returned.
SweepAdvancesAfterFailure ==
    /\ SweepAdvances
    /\ run_log'.windows = run_log.windows

\* The first day of the calendar month after the month of day d.
FollowingMonth(d) ==
    IF Month(d) = 12 THEN MkDate(Year(d) + 1, 1, 1) ELSE MkDate(Year(d), Month(d) + 1, 1)

\* The sub-window start strictly increases from one iteration to the next.
SweepStartIncreases ==
    [][SweepAdvances => loc'.current_start > loc.current_start]_vars

(***************************************************************************)
(* C33.  The incremental month sweep terminates for every window with      *)
(* start_date <= end_date, also when sub-window fetches raise: the         *)
(* sub-window start strictly increases from one iteration to the next, and *)
(* after a failed sub-window the sweep moves on to the sub-window of the   *)
(* immediately following calendar month.                                   *)
(***************************************************************************)
C33_SweepMovesToFollowingMonth ==
    [][ /\ SweepAdvances => loc'.current_start > loc.current_start
        /\ SweepAdvancesAfterFailure =>
               loc'.current_start = FollowingMonth(loc.current_start) ]_vars



(***************************************************************************)
(* C34.  After any sequence of full and incremental name-change runs, the  *)
(* stock_namechange collection holds at most one record per (symbol,       *)
(* start_date), the key the normalizer deduplicates on, although records   *)
(* are written with plain inserts guarded by an existence check on         *)
(* (symbol, name, ann_date).                                               *)
(***************************************************************************)
C34_OneRecordPerSymbolStartDate ==
    \A d1 \in stock_namechange, d2 \in stock_namechange :
        (d1.symbol = d2.symbol /\ d1.start_date = d2.start_date) => d1 = d2



\* An index-price history run has ended after its bulk writes.
IndexRunEnded == active = "index_market" /\ pc = "done" /\ run_log.saved

\* The index_market collection holds a record of index ts_code for day.
HoldsIndexDay(coll, ts_code, day) ==
    \E i \in 1..Len(coll) : coll[i].symbol = ts_code /\ coll[i].date = day

(***************************************************************************)
(* C35.  After an index-price sync over a window containing several        *)
(* trading days, index_market holds one record for every (index symbol,    *)
(* trading day) the provider returned: with the unique index that the lazy *)
(* setup creates on (symbol, trade_date), writing a record for a second    *)
(* date of the same index neither fails nor replaces the record of the     *)
(* first date.                                                             *)
(***************************************************************************)
C35_EveryIndexDayStored ==
    IndexRunEnded =>
        \A ts_code \in run_log.asked :
            LET df == IndexDaily(ts_code, run_log.windows[1][1], run_log.windows[1][2])
            IN  /\ \A k \in 1..Len(df) :
                       HoldsIndexDay(db["index_market"], ts_code, df[k].trade_date)
                /\ ~run_log.write_failed

(***************************************************************************)
(* C37.  A history rebuild of index prices for a window [start_date,       *)
(* end_date] leaves stored records whose date lies outside the window      *)
(* unchanged, and if every provider fetch of the rebuild then fails, the   *)
(* records stored before the run are still present.                        *)
(***************************************************************************)
C37_RebuildKeepsOtherRecords ==
    IndexRunEnded =>
        LET before == run_log.index_market0
            after  == db["index_market"]
        IN  /\ \A i \in 1..Len(before) :
                   (\/ before[i].date < run_log.windows[1][1]
                    \/ before[i].date > run_log.windows[1][2]) =>
                       \E j \in 1..Len(after) : after[j] = before[i]
            /\ (run_log.asked = {}) =>
                   \A i \in 1..Len(before) : \E j \in 1..Len(after) : after[j] = before[i]



\* A dividend sweep over a window of dates has queried its last day.
SweepEnded ==
    /\ active = "dividend"
    /\ pc = "dv_day"
    /\ loc.idx >= Len(loc.dates)
    /\ args.start_date <= args.end_date

\* How often the sweep has queried the provider for day d.
TimesQueried(d) ==
    Cardinality({k \in 1..Len(run_log.queried) : run_log.queried[k] = d})

\* Every day of the window has been queried exactly once.
EveryDayQueriedOnce ==
    LET days == DateRange(args.start_date, args.end_date)
    IN  /\ \A k \in 1..Len(days) : TimesQueried(days[k]) = 1
        /\ Len(run_log.queried) = Len(days)

\* The day-by-day strategy queries every day of its window exactly once.
DailySweepQueriesEveryDay ==
    (SweepEnded /\ DaysBetween(args.end_date, args.start_date) <= 90) =>
        EveryDayQueriedOnce

(***************************************************************************)
(* C36.  clean_dividend_data queries the provider for every calendar day   *)
(* of [start_date, end_date] exactly once, whichever strategy it selects   *)
(* (day by day for windows of at most 90 days, month by month for longer   *)
(* windows) and whatever day of the month start_date falls on.             *)
(***************************************************************************)
C36_EveryDayQueriedOnce == SweepEnded => EveryDayQueriedOnce



(***************************************************************************)
(* The lazy collection-and-index setup of the adjustment-factor day-tasks: *)
(* utils/mongo_utils.py ensure_collection_and_indexes, called by every     *)
(* clean_daily_data of a batch (ts_adj_factor_clean_pro_service.py, line   *)
(* 104) on the pool's worker threads.  Each database call of a task is one *)
(* step, and the steps of the tasks of a batch interleave.  The database   *)
(* refuses to create a collection that exists (pymongo raises              *)
(* CollectionInvalid) and treats the creation of an index that exists with *)
(* the same name and keys as done.                                         *)
(***************************************************************************)

\* The most day-tasks of one batch that reach the setup.
MaxSetupTasks == 3

\* The database before a batch: without the collection, with the collection
\* and no index, or with both.
SetupCatalogues ==
    {[collections |-> cs, indexes |-> ix, created |-> 0, built |-> 0, written |-> {}] :
        cs \in SUBSET {"adj_factor"}, ix \in SUBSET {"symbol_date_idx"}}

setupFrame == <<now, progress, active, pc, args, loc, sync_records,
                stock_namechange, db, run_log, last_write, reader, gateway>>

\* clean_history_data, lines 53-63: the days of a batch are submitted; the
\* tasks are taken up where they call ensure_collection_and_indexes
SU_Batch(n) ==
    /\ tasks = <<>>
    /\ tasks' = [k \in 1..n |-> [date |-> AddDays(20230103, k - 1), pc |-> "list", error |-> ""]]
    /\ UNCHANGED store
    /\ UNCHANGED setupFrame

\* line 22: collection_name not in db.list_collection_names()
SU_ListCollectionNames(t) ==
    /\ tasks[t].pc = "list"
    /\ tasks' = [tasks EXCEPT ![t].pc = IF "adj_factor" \in store.collections
                                        THEN "index_information"
                                        ELSE "create_collection"]
    /\ UNCHANGED store
    /\ UNCHANGED setupFrame

\* line 24: db.create_collection(collection_name); when the collection
\* exists by now the call raises, lines 44-46 log and re-raise, and
\* clean_daily_data (119-122) re-raises: the day's task has failed
SU_CreateCollection(t) ==
    /\ tasks[t].pc = "create_collection"
    /\ IF "adj_factor" \in store.collections
       THEN /\ tasks' = [tasks EXCEPT ![t].pc = "failed",
                                      ![t].error = "CollectionInvalid"]
            /\ UNCHANGED store
       ELSE /\ store' = [store EXCEPT !.collections = @ \cup {"adj_factor"},
                                      !.created = @ + 1]
            /\ tasks' = [tasks EXCEPT ![t].pc = "index_information"]
    /\ UNCHANGED setupFrame

\* lines 27-31: 'symbol_date_idx' not in collection.index_information()
SU_IndexInformation(t) ==
    /\ tasks[t].pc = "index_information"
    /\ tasks' = [tasks EXCEPT ![t].pc = IF "symbol_date_idx" \in store.indexes
                                        THEN "bulk_write"
                                        ELSE "create_index"]
    /\ UNCHANGED store
    /\ UNCHANGED setupFrame

\* lines 33-40: collection.create_index(..., name='symbol_date_idx'); an
\* index of that name and those keys that exists by now is left as it is
SU_CreateIndex(t) ==
    /\ tasks[t].pc = "create_index"
    /\ store' = IF "symbol_date_idx" \in store.indexes THEN store
                ELSE [store EXCEPT !.indexes = @ \cup {"symbol_date_idx"},
                                   !.built = @ + 1]
    /\ tasks' = [tasks EXCEPT ![t].pc = "bulk_write"]
    /\ UNCHANGED setupFrame

\* clean_daily_data, lines 105-116: the day's records are written
SU_BulkWrite(t) ==
    /\ tasks[t].pc = "bulk_write"
    /\ store' = [store EXCEPT !.written = @ \cup {tasks[t].date}]
    /\ tasks' = [tasks EXCEPT ![t].pc = "done"]
    /\ UNCHANGED setupFrame

\* lines 65-77: every future of the batch has been awaited
SU_BatchEnd ==
    /\ tasks # <<>>
    /\ \A t \in DOMAIN tasks : tasks[t].pc \in {"done", "failed"}
    /\ tasks' = <<>>
    /\ UNCHANGED store
    /\ UNCHANGED setupFrame

InitSetup ==
    /\ SyncInit /\ ReaderIdle /\ GatewayIdle /\ active = "adj_factor"
    /\ last_write = <<>>
    /\ store \in {c \in SetupCatalogues :
                     c.indexes # {} => c.collections # {}}

NextSetup ==
    \/ \E n \in 1..MaxSetupTasks : SU_Batch(n)
    \/ \E t \in DOMAIN tasks :
          \/ SU_ListCollectionNames(t)
          \/ SU_CreateCollection(t)
          \/ SU_IndexInformation(t)
          \/ SU_CreateIndex(t)
          \/ SU_BulkWrite(t)
    \/ SU_BatchEnd

SpecSetup == InitSetup /\ [][NextSetup]_vars

\* The collection and the index are each created at most once, and never
\* when they were there before the batch.
CreatedOnce ==
    /\ store.created <= 1
    /\ store.built <= 1

\* A task found the collection absent and another created it before the
\* first one's create call.
CreatedInBetween ==
    \E t \in DOMAIN tasks :
        /\ tasks[t].pc = "create_collection"
        /\ "adj_factor" \in store.collections

(***************************************************************************)
(* C38.  When the day-tasks of one adjustment-factor history batch run     *)
(* concurrently and each performs the lazy collection-and-index setup, the *)
(* collection and each index are created once and no task fails because    *)
(* another task created them between its existence check and its create    *)
(* call.                                                                   *)
(***************************************************************************)
C38_NoTaskFailsInSetup ==
    /\ CreatedOnce
    /\ \A t \in DOMAIN tasks : tasks[t].error # "CollectionInvalid"



(***************************************************************************)
(* Overlapping runs of one category: routes/data_clean/                    *)
(* dividend_data_clean.py and adj_factor_data_clean.py.  The entry points  *)
(* are coroutines that reset the module-level progress record and add a    *)
(* plain function to BackgroundTasks, which the framework runs on a worker *)
(* thread once the response is sent; nothing in the routes refuses a       *)
(* request while an earlier task of the category is running, so the tasks  *)
(* of several requests run side by side and all write the one record.      *)
(* Each task carries, as history, the record as its own writes alone would *)
(* have left it (own) and whether a task of its category was running when  *)
(* it was added (overlap).                                                 *)
(***************************************************************************)

\* The most invocations of a behaviour.
MaxRuns == 3

OverlapCats == {"dividend", "adj_factor"}

overlapFrame == <<now, active, pc, args, loc, sync_records, stock_namechange,
                  db, run_log, store, last_write, reader, gateway>>

\* The background tasks of category c, by position in invocation order.
RunsOf(c) == {t \in DOMAIN tasks : tasks[t].cat = c}

\* The most recently invoked task of category c.
Latest(c) == CHOOSE t \in RunsOf(c) : \A u \in RunsOf(c) : u <= t

\* A write of the keys of info to the record of task t's category.
OV_Write(t, info, next_pc) ==
    /\ progress' = [progress EXCEPT ![tasks[t].cat] = MergeProgress(@, info)]
    /\ tasks' = [tasks EXCEPT ![t].own = MergeProgress(@, info), ![t].pc = next_pc]

\* clean_dividend_daily / clean_dividend_history / upsert_adj_factor: the
\* record is reset and the task is added, whatever the record's status
OV_Invoke(c) ==
    /\ Len(tasks) < MaxRuns
    /\ progress' = [progress EXCEPT ![c] = ResetProgress(@)]
    /\ tasks' = Append(tasks,
                       [cat |-> c, pc |-> "running", own |-> ResetProgress(progress[c]),
                        overlap |-> \E u \in RunsOf(c) : tasks[u].pc = "running"])
    /\ UNCHANGED overlapFrame

\* progress_callback of the request that added task t
OV_Callback(t) ==
    /\ tasks[t].pc = "running"
    /\ tasks[t].own.progress_percent < 50
    /\ OV_Write(t, [progress_percent |-> 50], "running")
    /\ UNCHANGED overlapFrame

\* The task's work returns: the dividend task writes completed and 100; the
\* adjustment-factor task writes nothing more
OV_Return(t) ==
    /\ tasks[t].pc = "running"
    /\ IF tasks[t].cat = "dividend"
       THEN OV_Write(t, [status |-> "completed", progress_percent |-> 100], "returned")
       ELSE OV_Write(t, <<>>, "returned")
    /\ UNCHANGED overlapFrame

\* The task's work raises (or reports an error): status error and the message
OV_Error(t) ==
    /\ tasks[t].pc = "running"
    /\ OV_Write(t, [status |-> "error", error_message |-> "failed"], "returned")
    /\ UNCHANGED overlapFrame

InitOverlap ==
    /\ SyncInit /\ StoreIdle /\ ReaderIdle /\ GatewayIdle /\ active = "dividend"

NextOverlap ==
    \/ \E c \in OverlapCats : OV_Invoke(c)
    \/ \E t \in DOMAIN tasks : OV_Callback(t) \/ OV_Return(t) \/ OV_Error(t)

SpecOverlap == InitOverlap /\ [][NextOverlap]_vars

\* The record of category c shows what its latest task alone has written.
LatestRunOwnsRecord(c) ==
    LET own == tasks[Latest(c)].own
    IN  /\ progress[c].status = own.status
        /\ progress[c].progress_percent = own.progress_percent
        /\ progress[c].error_message = own.error_message

\* When no task was added while another of its category was running, the
\* record is the latest task's.
SerialRunsOwnRecord ==
    \A c \in OverlapCats :
        (RunsOf(c) # {} /\ \A t \in RunsOf(c) : ~tasks[t].overlap) =>
            LatestRunOwnsRecord(c)

\* Two tasks of a category have run side by side and all have returned.
OverlappedAndReturned ==
    \E c \in OverlapCats :
        /\ \E t \in RunsOf(c) : tasks[t].overlap
        /\ \A t \in RunsOf(c) : tasks[t].pc = "returned"

(***************************************************************************)
(* C39.  When a second invocation for a category arrives while an earlier  *)
(* run of that category is still running, the status, progress_percent and *)
(* error_message of the category's progress record are those of the most   *)
(* recently invoked run: a late write of the earlier run never overwrites  *)
(* them.                                                                   *)
(***************************************************************************)
C39_LateWriteNeverOverwrites ==
    \A c \in OverlapCats : (RunsOf(c) # {}) => LatestRunOwnsRecord(c)

=============================================================================
